---- MODULE Spec2Model ----
(***************************************************************************)
(* Hyperparameter tuning (utils/tuning_utils.py) and cross-validated       *)
(* evaluation (utils/ml_utils.py) of the accident-severity study, as state *)
(* machines.  SpecTuning runs calls of tunar_modelo; SpecML runs one call  *)
(* of validador_cruzado or of avaliar_modelo.  SpecParalelo runs folds and *)
(* trials side by side, SpecBusca the skopt search, SpecModelos and        *)
(* SpecSugestao the configuration tables (config/modelos.py,               *)
(* config/search_spaces.py), SpecPre the holiday cache and the helpers of  *)
(* utils/preprocessingUtils.py, SpecToml the requirements watcher          *)
(* (gerador_dependencies_toml.py).                                         *)
(*                                                                         *)
(* Conventions: an optional value (Python None or a value) is a sequence   *)
(* of length 0 or 1.  A float that the source writes as a power of ten is  *)
(* held as its decimal exponent.  A fraction a/b is the pair <<a, b>>.     *)
(***************************************************************************)
EXTENDS Integers, Sequences, FiniteSets, TLC

VARIABLES
    \* ---- tunar_modelo: arguments
    nome_modelo,            \* str
    metodo,                 \* str
    espacos_busca_optuna,   \* optional registry
    espaco_busca_skopt,     \* optional list of regions
    n_iteracoes,            \* int >= 1
    n_amostras,             \* len(X_treino)
    embaralhamento,         \* the permutation KFold(shuffle, random_state=42) draws
    \* ---- tunar_modelo: execution
    pc,                     \* position in tunar_modelo
    saida,                  \* what log()/print() wrote, in order
    kfold,                  \* optional: the folds once KFold was constructed
    estudos,                \* finished fold studies, in order
    estudo,                 \* optional: the trials of the study being optimized
    n_ajustes,              \* model fits executed in this call
    retorno,                \* optional: the mapping returned
    erro,                   \* "None" or the exception raised to the caller
    ajustes,                \* what fit+predict gives on (fold, parametros), once known
    anteriores,             \* outcomes of the earlier calls with the same arguments
    \* ---- validador_cruzado / avaliar_modelo: arguments
    funcao,                 \* which function of ml_utils is called
    y,                      \* the label vector (y, or y_teste for avaliar_modelo)
    n_splits,
    exibir_resultados,
    salvar_figuras,
    tem_predict_proba,      \* hasattr(modelo, 'predict_proba')
    test_folds,             \* the fold StratifiedKFold(random_state=2024) holds each row out in
    \* ---- validador_cruzado / avaliar_modelo: execution
    pc_ml,
    lista_acuracia, lista_auc_roc,
    lista_precisao, lista_recall, lista_f1,
    lista_matrizes,
    lista_fpr, lista_tpr,
    n_fits,                 \* fit+score iterations executed
    resultados,             \* optional: the report returned
    avaliacao,              \* what avaliar_modelo computed, by name
    figuras,                \* files written by plt.savefig
    impresso,               \* what print() wrote, in order
    erro_ml,                \* "None" or the exception raised to the caller
    \* ---- folds of validador_cruzado and trials of objetivo_optuna on workers
    agendamento,            \* "sequencial" (as the loops run them) or "paralelo"
    k_folds,                \* folds of the validador_cruzado call
    n_tentativas,           \* trials of the study
    heap,                   \* estimator objects: what each was last fitted on
    pc_fold,                \* position of each fold in the loop body
    predicoes_fold,         \* the fit that gave each fold its y_predito
    pc_tentativa,           \* position of each trial in objetivo_optuna
    modelo_tentativa,       \* the object each trial bound to its local modelo
    predicoes_tentativa,    \* the fit that gave each trial its y_predito
    \* ---- objetivo_skopt: BayesSearchCV over the list of regions
    busca_n_iter,           \* n_iter = n_iteracoes
    busca_pc,
    busca_espaco,           \* index of the search space being optimized
    busca_restam,           \* iterations left for that search space
    busca_avaliados,        \* candidates evaluated so far, all spaces together
    busca_fits,             \* estimator fits so far
    busca_melhor,           \* optional: best candidate so far and its mean score
    busca_retorno,          \* optional: the mapping returned
    busca_erro,
    busca_saida,            \* what print() wrote
    \* ---- objetivo_optuna: one trial's suggestions, and the study's best_params
    sug_modelo,             \* nome_modelo
    sug_pc,
    sug_sorteio,            \* what the sampler draws for each hyperparameter
    sug_params,             \* trial.params: value by the name given to suggest_*
    sug_parametros,         \* optional: the dict handed to classe_modelo
    sug_retorno,            \* optional: best_params as tunar_modelo returns it
    \* ---- config/feriados.py and the helpers of preprocessingUtils.py
    FERIADOS_POR_ANO,       \* the module-level dict
    pedidos,                \* years requested from obter_feriados_ano, in order
    geracoes,               \* years gerar_feriados was called with, in order
    respostas,              \* what each request returned
    pre_funcao,             \* the helper being called
    pre_entrada,            \* its row or DataFrame argument
    pre_pc,
    pre_retorno,            \* optional: what it returned
    pre_erro,               \* "None" or the exception raised to the caller
    pre_impresso,           \* what print() wrote
    \* ---- gerador_dependencies_toml.py
    evento,                 \* event.src_path of the modification event
    disco_pyproject,        \* pyproject.toml on disk
    disco_requirements,     \* requirements.txt on disk
    pyproject_antes,        \* pyproject.toml on disk when the event arrived
    toml_pc,
    pyproject,              \* optional: the document loaded
    dependencias,           \* the list read from requirements.txt
    toml_str,               \* the text to write
    toml_impresso           \* what print() wrote

varsTuning == <<nome_modelo, metodo, espacos_busca_optuna, espaco_busca_skopt,
                n_iteracoes, n_amostras, embaralhamento, pc, saida, kfold,
                estudos, estudo, n_ajustes, retorno, erro, ajustes, anteriores>>

varsML == <<funcao, y, n_splits, exibir_resultados, salvar_figuras, tem_predict_proba,
            test_folds, pc_ml, lista_acuracia, lista_auc_roc, lista_precisao,
            lista_recall, lista_f1, lista_matrizes, lista_fpr, lista_tpr, n_fits,
            resultados, avaliacao, figuras, impresso, erro_ml>>

varsParalelo == <<agendamento, k_folds, n_tentativas, heap, pc_fold, predicoes_fold,
                  pc_tentativa, modelo_tentativa, predicoes_tentativa>>

varsBusca == <<busca_n_iter, busca_pc, busca_espaco, busca_restam, busca_avaliados,
               busca_fits, busca_melhor, busca_retorno, busca_erro, busca_saida>>

varsSugestao == <<sug_modelo, sug_pc, sug_sorteio, sug_params, sug_parametros,
                  sug_retorno>>

varsPre == <<FERIADOS_POR_ANO, pedidos, geracoes, respostas, pre_funcao, pre_entrada,
             pre_pc, pre_retorno, pre_erro, pre_impresso>>

varsToml == <<evento, disco_pyproject, disco_requirements, pyproject_antes, toml_pc,
              pyproject, dependencias, toml_str, toml_impresso>>

varsOutros == <<varsParalelo, varsBusca, varsSugestao, varsPre, varsToml>>

vars == <<varsTuning, varsML, varsOutros>>

\* No fold and no trial is on a worker.
ParaleloParado ==
    /\ agendamento = "parado"
    /\ k_folds = 0 /\ n_tentativas = 0
    /\ heap = <<>>
    /\ pc_fold = <<>> /\ predicoes_fold = <<>>
    /\ pc_tentativa = <<>> /\ modelo_tentativa = <<>> /\ predicoes_tentativa = <<>>

\* No call of objetivo_skopt is in progress.
BuscaParada ==
    /\ busca_n_iter = 0 /\ busca_pc = "parado" /\ busca_espaco = 0
    /\ busca_restam = 0 /\ busca_avaliados = 0 /\ busca_fits = 0
    /\ busca_melhor = <<>> /\ busca_retorno = <<>>
    /\ busca_erro = "None" /\ busca_saida = <<>>

\* No trial is suggesting.
SugestaoParada ==
    /\ sug_modelo = "" /\ sug_pc = "parado" /\ sug_sorteio = <<>>
    /\ sug_params = <<>> /\ sug_parametros = <<>> /\ sug_retorno = <<>>

\* The holiday module is freshly imported and no helper is being called.
PreParado ==
    /\ FERIADOS_POR_ANO = <<>> /\ pedidos = <<>> /\ geracoes = <<>>
    /\ respostas = <<>>
    /\ pre_funcao = "" /\ pre_entrada = <<>> /\ pre_pc = "parado"
    /\ pre_retorno = <<>> /\ pre_erro = "None" /\ pre_impresso = <<>>

\* The watcher has no event to handle.
TomlParado ==
    /\ evento = "" /\ disco_pyproject = <<>> /\ disco_requirements = <<>>
    /\ pyproject_antes = <<>> /\ toml_pc = "parado" /\ pyproject = <<>>
    /\ dependencias = <<>> /\ toml_str = <<>> /\ toml_impresso = <<>>

OutrosParados ==
    ParaleloParado /\ BuscaParada /\ SugestaoParada /\ PreParado /\ TomlParado

foraParalelo == <<varsTuning, varsML, varsBusca, varsSugestao, varsPre, varsToml>>
foraBusca == <<varsTuning, varsML, varsParalelo, varsSugestao, varsPre, varsToml>>
foraSugestao == <<varsTuning, varsML, varsParalelo, varsBusca, varsPre, varsToml>>
foraPre == <<varsTuning, varsML, varsParalelo, varsBusca, varsSugestao, varsToml>>
foraToml == <<varsTuning, varsML, varsParalelo, varsBusca, varsSugestao, varsPre>>

(***************************************************************************)
(* Bounds of the model.                                                    *)
(***************************************************************************)
MaxIteracoes == 2
MaxAmostras == 4
MaxChamadas == 2
MaxLinhas == 6
MaxSplits == 3
NumGrade == 3
MaxPedidos == 3
MaxLinhasDf == 4
MaxLinhasReq == 2

Nenhum == <<>>
Algum(x) == <<x>>

(***************************************************************************)
(* config/search_spaces.py: the sampled-search registry.  A rule is what   *)
(* the lambda asks of the trial: suggest_categorical / suggest_int /       *)
(* suggest_float with its bounds.                                          *)
(***************************************************************************)
Cat(vals) == [tipo |-> "categorical", cats |-> vals, lo |-> 0, hi |-> 0, log |-> FALSE]
Int_(a, b) == [tipo |-> "int", cats |-> {}, lo |-> a, hi |-> b, log |-> FALSE]
Float(a, b, l) == [tipo |-> "float", cats |-> {}, lo |-> a, hi |-> b, log |-> l]

search_spaces_optuna ==
    [ decision_tree |->
        [ criterion |-> Cat({"gini", "entropy", "log_loss"}),
          max_depth |-> Int_(1, 100),
          min_samples_split |-> Int_(2, 50),
          min_samples_leaf |-> Int_(1, 50),
          max_features |-> Cat({"None", "sqrt", "log2", "0.5"}),
          ccp_alpha |-> Float(-6, -1, FALSE) ],
      random_forest |->
        [ n_estimators |-> Int_(1, 200),
          criterion |-> Cat({"gini", "entropy", "log_loss"}),
          max_depth |-> Int_(1, 100),
          min_samples_split |-> Int_(2, 50),
          min_samples_leaf |-> Int_(1, 50),
          max_features |-> Cat({"None", "sqrt", "log2", "0.5"}),
          bootstrap |-> Cat({"True", "False"}),
          ccp_alpha |-> Float(-6, -1, FALSE) ],
      naive_bayes |->
        [ var_smoothing |-> Float(-10, -2, TRUE) ],
      knn |->
        [ n_neighbors |-> Int_(1, 50),
          weights |-> Cat({"uniform", "distance"}),
          metric |-> Cat({"euclidean", "manhattan", "minkowski"}),
          algorithm |-> Cat({"auto", "ball_tree", "kd_tree", "brute"}),
          leaf_size |-> Int_(20, 100),
          p |-> Cat({"1", "2"}) ],
      svc |->
        [ C |-> Float(-6, 6, TRUE),
          kernel |-> Cat({"linear", "rbf", "poly"}),
          tol |-> Float(-6, -2, TRUE),
          max_iter |-> Int_(50, 2000) ],
      mlp |->
        [ hidden_layer_sizes |-> Cat({"(50,)", "(100,)", "(50, 50)", "(100, 100)",
                                      "(50, 100)", "(100, 50)"}),
          activation |-> Cat({"relu", "tanh", "logistic"}),
          solver |-> Cat({"adam", "sgd"}),
          alpha |-> Float(-5, -1, TRUE),
          learning_rate |-> Cat({"constant", "invscaling", "adaptive"}),
          learning_rate_init |-> Float(-4, -1, TRUE),
          max_iter |-> Int_(50, 10000),
          tol |-> Float(-4, -2, TRUE) ] ]

\* The four regions of the point-based space, by penalty.
search_spaces_skopt ==
    << [penalty |-> {"l1"}, solver |-> {"liblinear", "saga"}, l1_ratio |-> FALSE],
       [penalty |-> {"l2"}, solver |-> {"liblinear", "lbfgs", "saga"}, l1_ratio |-> FALSE],
       [penalty |-> {"elasticnet"}, solver |-> {"saga"}, l1_ratio |-> TRUE],
       [penalty |-> {"None"}, solver |-> {"lbfgs", "saga"}, l1_ratio |-> FALSE] >>

\* The values a rule is drawn from here: a categorical's whole set, a range's ends.
Amostras(regra) ==
    IF regra.tipo = "categorical" THEN regra.cats ELSE {regra.lo, regra.hi}

\* objetivo_optuna's dict comprehension: one draw per hyperparameter of the model.
RECURSIVE AssignmentsOver(_, _)
AssignmentsOver(espaco, chaves) ==
    IF chaves = {} THEN { <<>> }
    ELSE LET h == CHOOSE k \in chaves : TRUE
         IN  { (h :> v) @@ f : v \in Amostras(espaco[h]),
                               f \in AssignmentsOver(espaco, chaves \ {h}) }

Assignments(espaco) == AssignmentsOver(espaco, DOMAIN espaco)

(***************************************************************************)
(* KFold(n_splits=3, shuffle=True, random_state=42).split(X_treino): the   *)
(* seed fixes one permutation of the row indices per length; the first     *)
(* n % 3 folds hold one row more.                                          *)
(***************************************************************************)
N_SPLITS == 3

TamanhoFold(n, i) == (n \div N_SPLITS) + (IF i <= n % N_SPLITS THEN 1 ELSE 0)

RECURSIVE InicioFold(_, _)
InicioFold(n, i) == IF i = 1 THEN 0 ELSE InicioFold(n, i - 1) + TamanhoFold(n, i - 1)

indice_validacao(i) ==
    { embaralhamento[j] :
        j \in (InicioFold(n_amostras, i) + 1) ..
              (InicioFold(n_amostras, i) + TamanhoFold(n_amostras, i)) }

\* A training partition that keeps the validation rows.
indice_treino_com_validacao(i) == 1 .. n_amostras

indice_treino(i) == (1 .. n_amostras) \ indice_validacao(i)

\* The permutations the shuffle may be: the identity and its rotations.
Rotacao(n, k) == [j \in 1 .. n |-> ((j + k - 1) % n) + 1]
Embaralhamentos(n) == { Rotacao(n, k) : k \in {0, 1} }

(***************************************************************************)
(* Scores are accuracies: correct predictions over the validation size.    *)
(***************************************************************************)
Maior(a, b) == a[1] * b[2] > b[1] * a[2]

\* optuna: the study's best trial is the first COMPLETE trial no later one beats.
RECURSIVE MelhorTentativa(_, _, _)
MelhorTentativa(tentativas, i, melhor) ==
    IF i > Len(tentativas) THEN melhor
    ELSE MelhorTentativa(tentativas, i + 1,
            IF tentativas[i].estado = "COMPLETE"
               /\ (melhor = 0 \/ Maior(tentativas[i].valor, tentativas[melhor].valor))
            THEN i ELSE melhor)

best_trial(e) == e[MelhorTentativa(e, 1, 0)]
best_value(e) == best_trial(e).valor
best_params(e) == best_trial(e).parametros

\* Python's max(estudos, key=...): the first element no later one exceeds.
RECURSIVE MaxEstudoUltimo(_, _, _)
MaxEstudoUltimo(es, i, melhor) ==
    IF i > Len(es) THEN melhor
    ELSE MaxEstudoUltimo(es, i + 1,
            IF ~Maior(best_value(es[melhor]), best_value(es[i])) THEN i ELSE melhor)

RECURSIVE MaxEstudo(_, _, _)
MaxEstudo(es, i, melhor) ==
    IF i > Len(es) THEN melhor
    ELSE MaxEstudo(es, i + 1,
            IF Maior(best_value(es[i]), best_value(es[melhor])) THEN i ELSE melhor)

melhor_estudo(es) == es[MaxEstudo(es, 2, 1)]

(***************************************************************************)
(* tunar_modelo                                                            *)
(***************************************************************************)
Metodos == {"optuna", "skopt", "grid"}
NomesModelo == {"naive_bayes", "logistic_regression"}
Excecoes == {"ValueError", "RuntimeError"}

\* log(mensagem) and log(mensagem, inicio=inicio): the start and completion markers.
log(tipo) == [tipo |-> tipo, modelo |-> nome_modelo, metodo |-> metodo]
print(texto) == [tipo |-> texto, modelo |-> "", metodo |-> ""]

\* The except clauses of tunar_modelo: report, then re-raise.
ExceptTunar(exc) ==
    IF exc = "ValueError" THEN print("Erro de valor") ELSE print("Erro inesperado")

\* Line 125: the condition under which the sampled path has no space to search.
EspacoOptunaAusenteSoNone ==
    espacos_busca_optuna = Nenhum

EspacoOptunaAusente ==
    \/ espacos_busca_optuna = Nenhum
    \/ nome_modelo \notin DOMAIN espacos_busca_optuna[1]

\* Line 156.
EspacoSkoptAusente == espaco_busca_skopt = Nenhum

FoldAtual == Len(estudos) + 1

\* What fit on fold i's training rows and predict on its validation rows can give:
\* an exception, or a number of correct predictions.
Resultados(i) ==
    [exc : Excecoes, acertos : {0}]
    \cup [exc : {"None"}, acertos : 0 .. TamanhoFold(n_amostras, i)]

Conhecido(i, p) == { a \in ajustes : a.fold = i /\ a.parametros = p }

TunarInit ==
    /\ nome_modelo \in NomesModelo
    /\ metodo \in Metodos
    /\ espacos_busca_optuna \in {Nenhum, Algum(search_spaces_optuna)}
    /\ espaco_busca_skopt \in {Nenhum, Algum(search_spaces_skopt)}
    /\ n_iteracoes \in 1 .. MaxIteracoes
    /\ n_amostras \in 2 .. MaxAmostras
    /\ embaralhamento \in Embaralhamentos(n_amostras)
    /\ pc = "inicio"
    /\ saida = <<>>
    /\ kfold = Nenhum
    /\ estudos = <<>>
    /\ estudo = Nenhum
    /\ n_ajustes = 0
    /\ retorno = Nenhum
    /\ erro = "None"
    /\ ajustes = {}
    /\ anteriores = <<>>

entradas == <<nome_modelo, metodo, espacos_busca_optuna, espaco_busca_skopt,
              n_iteracoes, n_amostras, embaralhamento>>

\* Lines 121-122: take the start time, emit the start marker.
TunarInicio ==
    /\ pc = "inicio"
    /\ saida' = Append(saida, log("iniciado"))
    /\ pc' = "despacho"
    /\ UNCHANGED <<varsML, varsOutros, entradas, kfold, estudos, estudo, n_ajustes, retorno, erro,
                   ajustes, anteriores>>

\* A handler that reports the exception and does not re-raise it.
LevantaEngolida(exc, antes) ==
    /\ saida' = saida \o antes \o <<ExceptTunar(exc)>>
    /\ UNCHANGED <<erro, pc>>

\* An exception leaving the try block of tunar_modelo (lines 172-177).
Levanta(exc, antes) ==
    /\ saida' = saida \o antes \o <<ExceptTunar(exc)>>
    /\ erro' = exc
    /\ pc' = "levantou"

\* Lines 124-131, 155-157, 169-170: the dispatch on metodo and its checks.
TunarDespacho ==
    /\ pc = "despacho"
    /\ IF metodo = "optuna" THEN
          IF EspacoOptunaAusente
          THEN Levanta("ValueError", <<>>) /\ UNCHANGED kfold
          ELSE /\ kfold' = Algum(N_SPLITS)
               /\ pc' = "fold"
               /\ UNCHANGED <<saida, erro>>
       ELSE IF metodo = "skopt" THEN
          IF EspacoSkoptAusente
          THEN Levanta("ValueError", <<>>) /\ UNCHANGED kfold
          ELSE pc' = "skopt" /\ UNCHANGED <<saida, erro, kfold>>
       ELSE Levanta("ValueError", <<>>) /\ UNCHANGED kfold
    /\ UNCHANGED <<varsML, varsOutros, entradas, estudos, estudo, n_ajustes, retorno, ajustes, anteriores>>

\* Lines 133-137: the split yields the next fold (it refuses fewer rows than
\* folds) and a study is created for it.
TunarFold ==
    /\ pc = "fold"
    /\ IF n_amostras < N_SPLITS
       THEN Levanta("ValueError", <<>>) /\ UNCHANGED estudo
       ELSE /\ estudo' = Algum(<<>>)
            /\ pc' = "tentativa"
            /\ UNCHANGED <<saida, erro>>
    /\ UNCHANGED <<varsML, varsOutros, entradas, kfold, estudos, n_ajustes, retorno, ajustes, anteriores>>

\* The fold whose partitions the objective is bound to (lines 134-145).
FoldDaTentativa == FoldAtual

Tentativa(p, r, estado) ==
    [ parametros |-> p, estado |-> estado,
      valor |-> <<r.acertos, TamanhoFold(n_amostras, FoldAtual)>>,
      treino |-> indice_treino(FoldDaTentativa),
      validacao |-> indice_validacao(FoldDaTentativa) ]

\* Lines 138-147 with objetivo_optuna (82-93): one trial of estudo.optimize.  The
\* sampler is not seeded: any assignment of the space may be drawn.  A raising
\* trial is stored FAIL, reported, and leaves optimize and tunar_modelo.
TunarTentativa ==
    /\ pc = "tentativa"
    /\ IF nome_modelo \notin DOMAIN espacos_busca_optuna[1]
       THEN /\ estudo' = Algum(Append(estudo[1],
                    Tentativa(<<>>, [exc |-> "KeyError", acertos |-> 0], "FAIL")))
            /\ Levanta("KeyError", <<print("Erro durante a execucao do Optuna")>>)
            /\ UNCHANGED <<estudos, n_ajustes, ajustes>>
       ELSE \E p \in Assignments(espacos_busca_optuna[1][nome_modelo]) :
            \E r \in (IF Conhecido(FoldAtual, p) = {} THEN Resultados(FoldAtual)
                      ELSE { a.resultado : a \in Conhecido(FoldAtual, p) }) :
              /\ ajustes' = ajustes \cup
                    {[fold |-> FoldAtual, parametros |-> p, resultado |-> r]}
              /\ n_ajustes' = n_ajustes + 1
              /\ IF r.exc # "None"
                 THEN /\ estudo' = Algum(Append(estudo[1], Tentativa(p, r, "FAIL")))
                      /\ Levanta(r.exc, <<print("Erro durante a execucao do Optuna")>>)
                      /\ UNCHANGED estudos
                 ELSE LET feitas == Append(estudo[1], Tentativa(p, r, "COMPLETE"))
                      IN  IF Len(feitas) < n_iteracoes
                          THEN /\ estudo' = Algum(feitas)
                               /\ UNCHANGED <<estudos, pc, saida, erro>>
                          ELSE /\ estudos' = Append(estudos, feitas)
                               /\ estudo' = Nenhum
                               /\ pc' = IF Len(estudos') < kfold[1] THEN "fold"
                                        ELSE "selecao"
                               /\ UNCHANGED <<saida, erro>>
    /\ UNCHANGED <<varsML, varsOutros, entradas, kfold, retorno, anteriores>>

\* Lines 149-153: the best of the fold studies, the completion marker, the return.
TunarSelecao ==
    /\ pc = "selecao"
    /\ retorno' = Algum(best_params(melhor_estudo(estudos)))
    /\ saida' = saida \o <<print("Melhores Hiperparametros (optuna)"), log("concluido")>>
    /\ pc' = "retornou"
    /\ UNCHANGED <<varsML, varsOutros, entradas, kfold, estudos, estudo, n_ajustes, erro, ajustes, anteriores>>

\* Lines 159-167 with objetivo_skopt (44-63): the point-based search either raises
\* (reported by objetivo_skopt, then by tunar_modelo) or gives the best point of
\* one region.
TunarSkopt ==
    /\ pc = "skopt"
    /\ \/ \E exc \in Excecoes :
            /\ Levanta(exc, <<print("Erro durante a execucao do BayesSearchCV")>>)
            /\ UNCHANGED retorno
       \/ \E i \in 1 .. Len(espaco_busca_skopt[1]) :
          \E pen \in espaco_busca_skopt[1][i].penalty :
          \E sol \in espaco_busca_skopt[1][i].solver :
            /\ retorno' = Algum([penalty |-> pen, solver |-> sol,
                                 l1_ratio |-> espaco_busca_skopt[1][i].l1_ratio])
            /\ saida' = saida \o <<print("Melhores Hiperparametros (skopt)"),
                                   log("concluido")>>
            /\ pc' = "retornou"
            /\ UNCHANGED erro
    /\ UNCHANGED <<varsML, varsOutros, entradas, kfold, estudos, estudo, n_ajustes, ajustes, anteriores>>

\* The caller repeats the call with the same arguments on the same data.
NovaChamada ==
    /\ pc \in {"retornou", "levantou"}
    /\ Len(anteriores) + 1 < MaxChamadas
    /\ anteriores' = Append(anteriores, [retorno |-> retorno, erro |-> erro])
    /\ pc' = "inicio"
    /\ saida' = <<>>
    /\ kfold' = Nenhum
    /\ estudos' = <<>>
    /\ estudo' = Nenhum
    /\ n_ajustes' = 0
    /\ retorno' = Nenhum
    /\ erro' = "None"
    /\ UNCHANGED <<varsML, varsOutros, entradas, ajustes>>

TunarNext ==
    \/ TunarInicio
    \/ TunarDespacho
    \/ TunarFold
    \/ TunarTentativa
    \/ TunarSelecao
    \/ TunarSkopt

\* No call of ml_utils is in progress.
MLParado ==
    /\ funcao = "nenhuma"
    /\ y = <<>>
    /\ n_splits = 0
    /\ exibir_resultados = FALSE
    /\ salvar_figuras = FALSE
    /\ tem_predict_proba = FALSE
    /\ test_folds = <<>>
    /\ pc_ml = "parado"
    /\ lista_acuracia = <<>> /\ lista_auc_roc = <<>>
    /\ lista_precisao = <<>> /\ lista_recall = <<>> /\ lista_f1 = <<>>
    /\ lista_matrizes = <<>>
    /\ lista_fpr = <<>> /\ lista_tpr = <<>>
    /\ n_fits = 0
    /\ resultados = Nenhum
    /\ avaliacao = <<>>
    /\ figuras = <<>>
    /\ impresso = <<>>
    /\ erro_ml = "None"

InitTuning == TunarInit /\ MLParado /\ OutrosParados

SpecTuning == InitTuning /\ [][TunarNext]_vars

RepetirNext == TunarNext \/ NovaChamada

SpecRepetir == InitTuning /\ [][RepetirNext]_vars

(***************************************************************************)
(* Properties of tunar_modelo                                              *)
(***************************************************************************)
Igual(a, b) == a[1] * b[2] = b[1] * a[2]

SucessoOptuna == pc = "retornou" /\ metodo = "optuna"

\* C1: on the sampled path, when every trial succeeded, the mapping returned is
\* the best assignment of a fold study whose best score no other fold study
\* exceeds, and every earlier fold study's best score is strictly lower.
C1_MelhorDosFolds ==
    SucessoOptuna =>
        \E j \in 1 .. Len(estudos) :
            /\ \A i \in 1 .. Len(estudos) :
                    ~Maior(best_value(estudos[i]), best_value(estudos[j]))
            /\ \A i \in 1 .. (j - 1) :
                    Maior(best_value(estudos[j]), best_value(estudos[i]))
            /\ retorno = Algum(best_params(estudos[j]))

\* A return on which two fold studies tie at the maximum with different best
\* assignments, the later fold's differing from the one returned.
C1_Witness ==
    /\ SucessoOptuna
    /\ \E i, j \in 1 .. Len(estudos) :
        /\ i < j
        /\ Igual(best_value(estudos[i]), best_value(estudos[j]))
        /\ \A k \in 1 .. Len(estudos) :
                ~Maior(best_value(estudos[k]), best_value(estudos[i]))
        /\ best_params(estudos[i]) # best_params(estudos[j])

AbertoFalhou ==
    /\ estudo # Nenhum
    /\ \E k \in 1 .. Len(estudo[1]) : estudo[1][k].estado = "FAIL"

\* C2: once a trial has raised, the call has raised to its caller with nothing
\* returned; the failing trial is the last one run (no later trial, no later
\* fold), it is stored FAIL in a study that never joins the finished studies,
\* and every trial of a finished study is COMPLETE.
C2_FalhaAborta ==
    /\ \A i \in 1 .. Len(estudos) : \A k \in 1 .. Len(estudos[i]) :
            estudos[i][k].estado = "COMPLETE"
    /\ AbertoFalhou =>
        /\ pc = "levantou"
        /\ erro # "None"
        /\ retorno = Nenhum
        /\ estudo[1][Len(estudo[1])].estado = "FAIL"
        /\ \A k \in 1 .. (Len(estudo[1]) - 1) : estudo[1][k].estado = "COMPLETE"
        /\ Len(estudos) < 3
        /\ n_ajustes = Len(estudos) * n_iteracoes + Len(estudo[1])

\* A trial that raised in the second fold or later, after an earlier trial of
\* the same fold succeeded.
C2_Witness ==
    /\ AbertoFalhou
    /\ pc = "levantou"
    /\ Len(estudos) >= 1
    /\ Len(estudo[1]) >= 2

ConfiguracaoInvalida ==
    \/ metodo \notin {"optuna", "skopt"}
    \/ /\ metodo = "optuna"
       /\ \/ espacos_busca_optuna = Nenhum
          \/ nome_modelo \notin DOMAIN espacos_busca_optuna[1]
    \/ /\ metodo = "skopt"
       /\ espaco_busca_skopt = Nenhum

\* C3: a call with an invalid configuration never constructs the folds, creates
\* a study, runs a fit or returns a mapping, and the only way it leaves the
\* dispatch is by raising ValueError to the caller.
C3_ConfiguracaoInvalidaLevanta ==
    ConfiguracaoInvalida =>
        /\ kfold = Nenhum
        /\ estudos = <<>>
        /\ estudo = Nenhum
        /\ n_ajustes = 0
        /\ retorno = Nenhum
        /\ pc \in {"inicio", "despacho", "levantou"}
        /\ pc = "levantou" => erro = "ValueError"

\* The sampled method given a registry that lacks the model, after the raise.
C3_Witness ==
    /\ metodo = "optuna"
    /\ espacos_busca_optuna # Nenhum
    /\ nome_modelo \notin DOMAIN espacos_busca_optuna[1]
    /\ pc = "levantou"
    /\ erro = "ValueError"

TemMarca(tipo) == \E k \in 1 .. Len(saida) : saida[k] = log(tipo)

\* C4: every call that has ended, by return or by raise, has emitted its start
\* marker first and its completion marker with the elapsed duration.
C4_MarcaDeConclusaoSempre ==
    pc \in {"retornou", "levantou"} =>
        /\ saida[1] = log("iniciado")
        /\ TemMarca("concluido")

\* C5: a successful sampled call has run exactly 3 fold studies of exactly
\* n_iteracoes trials each, 3 * n_iteracoes fits in all, every trial of fold i
\* fitted on fold i's training rows and scored on fold i's validation rows,
\* which are disjoint and together all the rows; at most one study is open at a
\* time, and only while fewer than 3 are finished.
C5_TresEstudosDeNTentativas ==
    /\ estudo # Nenhum => Len(estudos) < 3 /\ Len(estudo[1]) < n_iteracoes + 1
    /\ SucessoOptuna =>
        /\ Len(estudos) = 3
        /\ estudo = Nenhum
        /\ n_ajustes = 3 * n_iteracoes
        /\ \A i \in 1 .. 3 :
            /\ Len(estudos[i]) = n_iteracoes
            /\ \A k \in 1 .. Len(estudos[i]) :
                /\ estudos[i][k].validacao = indice_validacao(i)
                /\ estudos[i][k].treino = (1 .. n_amostras) \ indice_validacao(i)
                /\ estudos[i][k].valor[2] = Cardinality(indice_validacao(i))
        /\ \A i, j \in 1 .. 3 :
                i # j => indice_validacao(i) \cap indice_validacao(j) = {}
        /\ UNION { indice_validacao(i) : i \in 1 .. 3 } = 1 .. n_amostras

\* A successful sampled call with a budget of more than one trial per fold on
\* rows that do not divide evenly into the folds.
C5_Witness ==
    /\ SucessoOptuna
    /\ n_iteracoes > 1
    /\ n_amostras % 3 # 0
    /\ n_ajustes = 3 * n_iteracoes

\* C6: a sampled call that returns after an earlier call with the same
\* arguments on the same data returned gives the mapping the earlier one gave.
C6_ChamadasIdenticasRetornoIdentico ==
    (SucessoOptuna /\ Len(anteriores) >= 1 /\ anteriores[1].erro = "None") =>
        retorno = anteriores[1].retorno

(***************************************************************************)
(* numpy arithmetic on exact fractions.  A number is <<n, d>> with d > 0;  *)
(* <<0, 0>> is nan, which every operation propagates.                      *)
(***************************************************************************)
NaN == <<0, 0>>
Zero == <<0, 1>>
Um == <<1, 1>>
EhNaN(a) == a[2] = 0

Abs(n) == IF n < 0 THEN -n ELSE n

RECURSIVE GCD(_, _)
GCD(a, b) == IF b = 0 THEN a ELSE GCD(b, a % b)

Norm(a) ==
    IF a[2] = 0 THEN NaN
    ELSE IF a[1] = 0 THEN Zero
    ELSE LET g == GCD(Abs(a[1]), a[2])
         IN  <<(Abs(a[1]) \div g) * (IF a[1] < 0 THEN -1 ELSE 1), a[2] \div g>>

FAdd(a, b) == IF EhNaN(a) \/ EhNaN(b) THEN NaN
              ELSE Norm(<<a[1] * b[2] + b[1] * a[2], a[2] * b[2]>>)
FSub(a, b) == IF EhNaN(a) \/ EhNaN(b) THEN NaN
              ELSE Norm(<<a[1] * b[2] - b[1] * a[2], a[2] * b[2]>>)
FMul(a, b) == IF EhNaN(a) \/ EhNaN(b) THEN NaN
              ELSE Norm(<<a[1] * b[1], a[2] * b[2]>>)
\* a / b for b >= 0; 0 / 0 is nan (numpy warns and goes on).
FDiv(a, b) == IF EhNaN(a) \/ EhNaN(b) \/ b[1] = 0 THEN NaN
              ELSE Norm(<<a[1] * b[2], a[2] * b[1]>>)
FLe(a, b) == a[1] * b[2] <= b[1] * a[2]

RECURSIVE FSum(_)
FSum(l) == IF l = <<>> THEN Zero ELSE FAdd(l[1], FSum(Tail(l)))

Quadrados(l) == [k \in 1 .. Len(l) |-> FMul(l[k], l[k])]

\* np.mean of a list of scalars: nan for the empty list.
np_mean(l) == FDiv(FSum(l), <<Len(l), 1>>)

\* np.std of a list of scalars, held as its square (the population variance).
np_std(l) == FSub(np_mean(Quadrados(l)), FMul(np_mean(l), np_mean(l)))

\* np.mean / np.std(..., axis=0) of a list of arrays of one shape, each array a
\* function on the index set idx.
np_mean_axis0(l, idx) == [c \in idx |-> np_mean([k \in 1 .. Len(l) |-> l[k][c]])]
np_std_axis0(l, idx) == [c \in idx |-> np_std([k \in 1 .. Len(l) |-> l[k][c]])]

\* np.interp(x, xp, fp) for xp[1] <= x: the segment of the last xp[j] <= x.
UltimoAte(x, xp) == CHOOSE j \in 1 .. Len(xp) :
                        /\ FLe(xp[j], x)
                        /\ \A m \in (j + 1) .. Len(xp) : ~FLe(xp[m], x)

np_interp(x, xp, fp) ==
    LET j == UltimoAte(x, xp)
    IN  IF j = Len(xp) THEN fp[j]
        ELSE FAdd(fp[j], FMul(FSub(x, xp[j]),
                              FDiv(FSub(fp[j + 1], fp[j]), FSub(xp[j + 1], xp[j]))))

\* np.linspace(0, 1, 100), on NumGrade points here.
mean_fpr == [g \in 1 .. NumGrade |-> Norm(<<g - 1, NumGrade - 1>>)]

(***************************************************************************)
(* sklearn metrics on a set of rows with their true and predicted labels   *)
(***************************************************************************)
Linhas == DOMAIN y
ClassesDe(linhas) == { y[r] : r \in linhas }
Conta(S) == Cardinality(S)

accuracy_score(linhas, pred) ==
    Norm(<<Conta({ r \in linhas : pred[r] = y[r] }), Conta(linhas)>>)

\* A ratio that sklearn sets to 0.0 (with a warning) when its denominator is 0.
Razao(n, d) == IF d = 0 THEN Zero ELSE Norm(<<n, d>>)

TP(linhas, pred, c) == Conta({ r \in linhas : y[r] = c /\ pred[r] = c })
Preditos(linhas, pred, c) == Conta({ r \in linhas : pred[r] = c })
Reais(linhas, c) == Conta({ r \in linhas : y[r] = c })

\* precision / recall / f1 with average=None over the labels given.
precision(linhas, pred, labels) ==
    [c \in labels |-> Razao(TP(linhas, pred, c), Preditos(linhas, pred, c))]
recall(linhas, pred, labels) ==
    [c \in labels |-> Razao(TP(linhas, pred, c), Reais(linhas, c))]
f1(linhas, pred, labels) ==
    [c \in labels |-> Razao(2 * TP(linhas, pred, c),
                            Preditos(linhas, pred, c) + Reais(linhas, c))]

\* confusion_matrix(y_true, y_pred) with no labels argument: indexed by the
\* labels that occur in either vector.
Presentes(linhas, pred) == ClassesDe(linhas) \cup { pred[r] : r \in linhas }

confusion_matrix(linhas, pred) ==
    [ab \in Presentes(linhas, pred) \X Presentes(linhas, pred) |->
        <<Conta({ r \in linhas : y[r] = ab[1] /\ pred[r] = ab[2] }), 1>>]

\* The positive-class probability of a row: 0 or 1 here, agreeing with predict.
Positivos(linhas) == { r \in linhas : y[r] = 1 }
Negativos(linhas) == { r \in linhas : y[r] = 0 }

\* roc_auc_score: defined only when both classes occur in y_true.
roc_auc_score(linhas, prob) ==
    LET pares == Positivos(linhas) \X Negativos(linhas)
    IN  Norm(<<2 * Conta({ pn \in pares : prob[pn[1]] > prob[pn[2]] })
                 + Conta({ pn \in pares : prob[pn[1]] = prob[pn[2]] }),
               2 * Conta(pares)>>)

\* roc_curve: the point (0, 0), then one point per distinct score, descending.
PontoROC(linhas, prob, limiar) ==
    [ fpr |-> Norm(<<Conta({ r \in Negativos(linhas) : prob[r] >= limiar }),
                     Conta(Negativos(linhas))>>),
      tpr |-> Norm(<<Conta({ r \in Positivos(linhas) : prob[r] >= limiar }),
                     Conta(Positivos(linhas))>>) ]

roc_curve(linhas, prob) ==
    LET pontos ==
            <<[fpr |-> Zero, tpr |-> Zero]>>
            \o (IF \E r \in linhas : prob[r] = 1
                THEN <<PontoROC(linhas, prob, 1)>> ELSE <<>>)
            \o (IF \E r \in linhas : prob[r] = 0
                THEN <<PontoROC(linhas, prob, 0)>> ELSE <<>>)
    IN  [ fpr |-> [k \in 1 .. Len(pontos) |-> pontos[k].fpr],
          tpr |-> [k \in 1 .. Len(pontos) |-> pontos[k].tpr] ]

(***************************************************************************)
(* StratifiedKFold(n_splits, shuffle=True, random_state=2024).split(X, y)  *)
(***************************************************************************)
\* Classes are numbered by first appearance and the rows sorted by that number:
\* the block of (0-based) sorted positions each class takes.
Bloco(rotulos, c) ==
    LET n_primeira == Cardinality({ r \in DOMAIN rotulos : rotulos[r] = rotulos[1] })
    IN  IF c = rotulos[1] THEN 0 .. (n_primeira - 1)
        ELSE n_primeira .. (Len(rotulos) - 1)

\* allocation[i][c]: the members of class c among sorted positions i, i+k, ...
Alocacao(rotulos, k, i, c) ==
    Cardinality({ pos \in Bloco(rotulos, c) : pos % k = i - 1 })

\* split() refuses more folds than rows, and more folds than every class has rows.
SplitInvalido(rotulos, k) ==
    \/ k > Len(rotulos)
    \/ \A c \in { rotulos[r] : r \in DOMAIN rotulos } :
            k > Cardinality({ r \in DOMAIN rotulos : rotulos[r] = c })

\* folds_for_class = arange(k).repeat(allocation[:, c]): the fold of the j-th
\* entry, before the shuffle.
RECURSIVE AlocadosAte(_, _, _, _)
AlocadosAte(rotulos, k, i, c) ==
    IF i = 0 THEN 0 ELSE AlocadosAte(rotulos, k, i - 1, c) + Alocacao(rotulos, k, i, c)

FoldDaPosicao(rotulos, k, c, j) ==
    CHOOSE i \in 1 .. k : /\ AlocadosAte(rotulos, k, i, c) >= j
                          /\ AlocadosAte(rotulos, k, i - 1, c) < j

Ordem(rotulos, r) ==
    Cardinality({ q \in DOMAIN rotulos : q <= r /\ rotulos[q] = rotulos[r] })
Membros(rotulos, r) ==
    Cardinality({ q \in DOMAIN rotulos : rotulos[q] = rotulos[r] })

\* The seeded shuffle decides which rows of a class go to which fold; the
\* allocation fixes how many.  The shuffles drawn here: none, and the reversal.
TestFolds(rotulos, k) ==
    { [r \in DOMAIN rotulos |->
            FoldDaPosicao(rotulos, k, rotulos[r], Ordem(rotulos, r))],
      [r \in DOMAIN rotulos |->
            FoldDaPosicao(rotulos, k, rotulos[r],
                          Membros(rotulos, r) - Ordem(rotulos, r) + 1)] }

\* A split whose held-out partitions accumulate from fold to fold.
indices_teste_acumulado(i) == { r \in Linhas : test_folds[r] <= i }

indices_teste(i) == { r \in Linhas : test_folds[r] = i }
indices_treino(i) == Linhas \ indices_teste(i)

(***************************************************************************)
(* validador_cruzado and avaliar_modelo                                    *)
(***************************************************************************)
\* No call of tunar_modelo is in progress.
TuningParado ==
    /\ nome_modelo = "" /\ metodo = ""
    /\ espacos_busca_optuna = Nenhum /\ espaco_busca_skopt = Nenhum
    /\ n_iteracoes = 0 /\ n_amostras = 0 /\ embaralhamento = <<>>
    /\ pc = "parado" /\ saida = <<>> /\ kfold = Nenhum
    /\ estudos = <<>> /\ estudo = Nenhum /\ n_ajustes = 0
    /\ retorno = Nenhum /\ erro = "None" /\ ajustes = {} /\ anteriores = <<>>

\* The label vectors drawn: the rows of one class, then the rows of the other
\* (or of no other).
Rotulos ==
    { [r \in 1 .. n |-> IF r <= m THEN a ELSE 1 - a] :
        n \in 2 .. MaxLinhas, m \in 1 .. MaxLinhas, a \in {0, 1} }

MLInit ==
    /\ funcao \in {"validador_cruzado", "avaliar_modelo"}
    /\ y \in Rotulos
    /\ tem_predict_proba \in BOOLEAN
    /\ IF funcao = "validador_cruzado"
       THEN /\ n_splits \in 2 .. MaxSplits
            /\ exibir_resultados \in BOOLEAN
            /\ salvar_figuras = FALSE
            /\ test_folds \in (IF SplitInvalido(y, n_splits) THEN {<<>>}
                               ELSE TestFolds(y, n_splits))
       ELSE /\ n_splits = 0
            /\ exibir_resultados = FALSE
            /\ salvar_figuras \in BOOLEAN
            /\ test_folds = <<>>
    /\ pc_ml = "inicio"
    /\ lista_acuracia = <<>> /\ lista_auc_roc = <<>>
    /\ lista_precisao = <<>> /\ lista_recall = <<>> /\ lista_f1 = <<>>
    /\ lista_matrizes = <<>>
    /\ lista_fpr = <<>> /\ lista_tpr = <<>>
    /\ n_fits = 0
    /\ resultados = Nenhum
    /\ avaliacao = <<>>
    /\ figuras = <<>>
    /\ impresso = <<>>
    /\ erro_ml = "None"

entradasML == <<funcao, y, n_splits, exibir_resultados, salvar_figuras,
                tem_predict_proba, test_folds>>
listas == <<lista_acuracia, lista_auc_roc, lista_precisao, lista_recall, lista_f1,
            lista_matrizes, lista_fpr, lista_tpr>>

\* Neither function catches anything: an exception goes to the caller.
LevantaML(exc) ==
    /\ erro_ml' = exc
    /\ pc_ml' = "levantou"

\* Lines 124-129: the splitter and the empty per-fold lists.
CVInicio ==
    /\ pc_ml = "inicio"
    /\ funcao = "validador_cruzado"
    /\ pc_ml' = "fold"
    /\ UNCHANGED <<varsTuning, varsOutros, entradasML, listas, n_fits, resultados, avaliacao,
                   figuras, impresso, erro_ml>>

\* A loop that stops one fold short.
HaMaisFoldsMenosUm(i) == i + 1 < n_splits

\* Line 131: whether the split yields a fold after the i-th.
HaMaisFolds(i) == i < n_splits

\* Line 141: whether this fold gets probabilities.
UsaProbabilidade == tem_predict_proba

\* Lines 131-158: one iteration of the fold loop.  fit may refuse a training
\* partition of one class (it depends on the estimator); predict gives labels
\* seen in training; predict_proba(...)[:, 1] needs a second class column;
\* roc_auc_score needs both classes among the held-out labels.
CVFold ==
    /\ pc_ml = "fold"
    /\ LET i == n_fits + 1 IN
       IF SplitInvalido(y, n_splits)
       THEN LevantaML("ValueError") /\ UNCHANGED <<listas, n_fits>>
       ELSE
         \E ajustou \in (IF Conta(ClassesDe(indices_treino(i))) < 2
                         THEN BOOLEAN ELSE {TRUE}) :
         \E y_predito \in [indices_teste(i) -> ClassesDe(indices_treino(i))] :
           IF ~ajustou
           THEN LevantaML("ValueError") /\ UNCHANGED <<listas, n_fits>>
           ELSE IF UsaProbabilidade /\ Conta(ClassesDe(indices_treino(i))) < 2
           THEN LevantaML("IndexError") /\ UNCHANGED <<listas, n_fits>>
           ELSE IF UsaProbabilidade /\ Conta(ClassesDe(indices_teste(i))) < 2
           THEN /\ lista_acuracia' =
                        Append(lista_acuracia, accuracy_score(indices_teste(i), y_predito))
                /\ LevantaML("ValueError")
                /\ UNCHANGED <<lista_auc_roc, lista_precisao, lista_recall, lista_f1,
                               lista_matrizes, lista_fpr, lista_tpr, n_fits>>
           ELSE
             /\ lista_acuracia' =
                    Append(lista_acuracia, accuracy_score(indices_teste(i), y_predito))
             /\ IF UsaProbabilidade
                THEN /\ lista_auc_roc' =
                            Append(lista_auc_roc, roc_auc_score(indices_teste(i), y_predito))
                     /\ lista_fpr' =
                            Append(lista_fpr, roc_curve(indices_teste(i), y_predito).fpr)
                     /\ lista_tpr' =
                            Append(lista_tpr, roc_curve(indices_teste(i), y_predito).tpr)
                ELSE UNCHANGED <<lista_auc_roc, lista_fpr, lista_tpr>>
             /\ lista_precisao' = Append(lista_precisao,
                    precision(indices_teste(i), y_predito, ClassesDe(Linhas)))
             /\ lista_recall' = Append(lista_recall,
                    recall(indices_teste(i), y_predito, ClassesDe(Linhas)))
             /\ lista_f1' = Append(lista_f1,
                    f1(indices_teste(i), y_predito, ClassesDe(Linhas)))
             /\ lista_matrizes' = Append(lista_matrizes,
                    confusion_matrix(indices_teste(i), y_predito))
             /\ n_fits' = i
             /\ pc_ml' = IF HaMaisFolds(i) THEN "fold" ELSE "agregar"
             /\ UNCHANGED erro_ml
    /\ UNCHANGED <<varsTuning, varsOutros, entradasML, resultados, avaliacao, figuras, impresso>>

\* Lines 170-172: the fold curves interpolated on the grid, summed, and divided
\* by the number of curves.
Interpoladas ==
    [k \in 1 .. Len(lista_fpr) |->
        [g \in 1 .. NumGrade |-> np_interp(mean_fpr[g], lista_fpr[k], lista_tpr[k])]]

mean_tpr_interp ==
    [g \in 1 .. NumGrade |->
        FDiv(FSum([k \in 1 .. Len(lista_fpr) |-> Interpoladas[k][g]]),
             <<Len(lista_fpr), 1>>)]

\* Line 174: np.std of an empty list is the scalar nan.
std_tpr ==
    IF lista_fpr = <<>> THEN NaN ELSE np_std_axis0(Interpoladas, 1 .. NumGrade)

\* Line 178.
EntradaAUC ==
    IF lista_auc_roc # <<>>
    THEN <<Algum(np_mean(lista_auc_roc)), Algum(np_std(lista_auc_roc))>>
    ELSE <<Nenhum, Nenhum>>

\* Lines 160-184: the aggregation.  np.mean over matrices of different shapes
\* raises.
CVAgregar ==
    /\ pc_ml = "agregar"
    /\ IF \E k \in 1 .. Len(lista_matrizes) :
            DOMAIN lista_matrizes[k] # DOMAIN lista_matrizes[1]
       THEN LevantaML("ValueError") /\ UNCHANGED resultados
       ELSE /\ resultados' = Algum(
                [ Acuracia |-> <<np_mean(lista_acuracia), np_std(lista_acuracia)>>,
                  AUC_ROC |-> EntradaAUC,
                  Precisao |-> <<np_mean_axis0(lista_precisao, ClassesDe(Linhas)),
                                 np_std_axis0(lista_precisao, ClassesDe(Linhas))>>,
                  Recall |-> <<np_mean_axis0(lista_recall, ClassesDe(Linhas)),
                               np_std_axis0(lista_recall, ClassesDe(Linhas))>>,
                  F1_Score |-> <<np_mean_axis0(lista_f1, ClassesDe(Linhas)),
                                 np_std_axis0(lista_f1, ClassesDe(Linhas))>>,
                  Matriz_de_Confusao |->
                        <<np_mean_axis0(lista_matrizes, DOMAIN lista_matrizes[1]),
                          np_std_axis0(lista_matrizes, DOMAIN lista_matrizes[1])>>,
                  Curva_ROC |-> <<mean_fpr, mean_tpr_interp, std_tpr>> ])
            /\ pc_ml' = "exibir"
            /\ UNCHANGED erro_ml
    /\ UNCHANGED <<varsTuning, varsOutros, entradasML, listas, n_fits, avaliacao, figuras, impresso>>

\* Lines 186-201: the report is printed entry by entry, each scalar entry with
\* the format :.4f, which None does not accept; then it is returned.
CVExibir ==
    /\ pc_ml = "exibir"
    /\ IF exibir_resultados
       THEN IF resultados[1].AUC_ROC[1] = Nenhum
            THEN /\ impresso' = <<"Resultados de Validacao Cruzada", "Acuracia">>
                 /\ LevantaML("TypeError")
            ELSE /\ impresso' = <<"Resultados de Validacao Cruzada", "Acuracia",
                                  "AUC-ROC", "Precisao", "Recall", "F1-Score",
                                  "Matriz de Confusao">>
                 /\ pc_ml' = "retornou"
                 /\ UNCHANGED erro_ml
       ELSE /\ pc_ml' = "retornou"
            /\ UNCHANGED <<impresso, erro_ml>>
    /\ UNCHANGED <<varsTuning, varsOutros, entradasML, listas, n_fits, resultados, avaliacao, figuras>>

Medida(nome, valor) == [nome |-> nome, valor |-> valor]

\* Lines 34-99: avaliar_modelo, on a fitted model of the two classes.  Each step
\* that can raise ends the call with what was computed before it.
AvaliarModelo ==
    /\ pc_ml = "inicio"
    /\ funcao = "avaliar_modelo"
    /\ \E y_pred \in [Linhas -> {0, 1}] :
        LET acuracia == Medida("acuracia", accuracy_score(Linhas, y_pred))
            auc_roc == Medida("auc_roc", roc_auc_score(Linhas, y_pred))
            rotulos == Presentes(Linhas, y_pred)
            por_classe == << Medida("precisao", precision(Linhas, y_pred, rotulos)),
                             Medida("recall", recall(Linhas, y_pred, rotulos)),
                             Medida("f1", f1(Linhas, y_pred, rotulos)) >>
            matriz == Medida("matriz_confusao", confusion_matrix(Linhas, y_pred))
            curva == Medida("curva_roc", roc_curve(Linhas, y_pred))
        IN  IF ~tem_predict_proba
            THEN /\ LevantaML("AttributeError")
                 /\ UNCHANGED <<avaliacao, impresso, figuras>>
            ELSE IF Conta(ClassesDe(Linhas)) < 2
            THEN /\ avaliacao' = <<acuracia>>
                 /\ LevantaML("ValueError")
                 /\ UNCHANGED <<impresso, figuras>>
            ELSE IF Conta(rotulos) < 2
            THEN /\ avaliacao' = <<acuracia, auc_roc>> \o por_classe
                 /\ impresso' = <<"Acuracia", "AUC-ROC">>
                 /\ LevantaML("IndexError")
                 /\ UNCHANGED figuras
            ELSE /\ avaliacao' = <<acuracia, auc_roc>> \o por_classe \o <<matriz, curva>>
                 /\ impresso' = <<"Acuracia", "AUC-ROC", "Classe 0", "Classe 1",
                                  "Matriz de Confusao">>
                 /\ figuras' = IF salvar_figuras
                               THEN <<"Matriz_Confusao.jpg", "Curva_ROC.jpg">>
                               ELSE <<>>
                 /\ pc_ml' = "retornou"
                 /\ UNCHANGED erro_ml
    /\ UNCHANGED <<varsTuning, varsOutros, entradasML, listas, n_fits, resultados>>

MLNext ==
    \/ CVInicio
    \/ CVFold
    \/ CVAgregar
    \/ CVExibir
    \/ AvaliarModelo

InitML == TuningParado /\ MLInit /\ OutrosParados

SpecML == InitML /\ [][MLNext]_vars

(***************************************************************************)
(* Properties of validador_cruzado and avaliar_modelo                      *)
(***************************************************************************)
ChamadaCV == funcao = "validador_cruzado"
DuasClasses == Conta(ClassesDe(Linhas)) = 2
Terminou == pc_ml \in {"retornou", "levantou"}

\* C7: on labels of both classes, once the folds of a model without predict_proba are aggregated, the call
\* returns, whatever exibir_resultados is, a report whose AUC-ROC entry is
\* (None, None); a report of a model with predict_proba holds the (mean, std)
\* of one AUC per fold, neither of them nan.
C7_AUCAusenteOuMediaDesvio ==
    /\ (ChamadaCV /\ DuasClasses /\ ~tem_predict_proba /\ resultados # Nenhum
            /\ Terminou) =>
            /\ pc_ml = "retornou"
            /\ resultados[1].AUC_ROC = <<Nenhum, Nenhum>>
    /\ (ChamadaCV /\ tem_predict_proba /\ pc_ml = "retornou") =>
            /\ resultados[1].AUC_ROC =
                    <<Algum(np_mean(lista_auc_roc)), Algum(np_std(lista_auc_roc))>>
            /\ Len(lista_auc_roc) = n_splits
            /\ ~EhNaN(np_mean(lista_auc_roc))

\* C8: on labels of both classes, a report returned for a model without predict_proba holds no mean-TPR
\* and no std-TPR computed from zero fold curves: both are absent, as the
\* AUC-ROC entry is.
C8_CurvaROCAusente ==
    (ChamadaCV /\ DuasClasses /\ ~tem_predict_proba /\ pc_ml = "retornou") =>
        /\ resultados[1].AUC_ROC = <<Nenhum, Nenhum>>
        /\ Len(resultados[1].Curva_ROC[2]) = 0
        /\ Len(resultados[1].Curva_ROC[3]) = 0

Nomes(medidas) == { medidas[k].nome : k \in 1 .. Len(medidas) }

\* C9: on labels of both classes, avaliar_modelo on a model without predict_proba ends without an error,
\* having computed accuracy, per-class precision, recall and F1 and the
\* confusion matrix, and neither AUC-ROC nor the ROC curve.
C9_AvaliarSemProbabilidade ==
    (funcao = "avaliar_modelo" /\ DuasClasses /\ ~tem_predict_proba /\ Terminou) =>
        /\ pc_ml = "retornou"
        /\ erro_ml = "None"
        /\ Nomes(avaliacao) = {"acuracia", "precisao", "recall", "f1", "matriz_confusao"}

\* C10: when validador_cruzado aggregates (and so whenever it completes), it has
\* run exactly n_splits fit+score iterations and holds exactly n_splits entries
\* in each of the accuracy, precision, recall, F1 and confusion-matrix lists;
\* with predict_proba exactly n_splits AUC and ROC-curve entries, without it
\* none.
C10_KEntradasPorLista ==
    (ChamadaCV /\ pc_ml \in {"agregar", "exibir", "retornou"}) =>
        /\ n_fits = n_splits
        /\ Len(lista_acuracia) = n_splits
        /\ Len(lista_precisao) = n_splits
        /\ Len(lista_recall) = n_splits
        /\ Len(lista_f1) = n_splits
        /\ Len(lista_matrizes) = n_splits
        /\ Len(lista_auc_roc) = (IF tem_predict_proba THEN n_splits ELSE 0)
        /\ Len(lista_fpr) = Len(lista_auc_roc)
        /\ Len(lista_tpr) = Len(lista_auc_roc)

\* A completed run of three folds on a model with predict_proba.
C10_Witness ==
    /\ ChamadaCV
    /\ pc_ml = "retornou"
    /\ tem_predict_proba
    /\ n_splits = 3
    /\ Len(lista_auc_roc) = 3

\* C11: on labels of both classes, every per-fold precision, recall and F1
\* vector collected has one entry per class (two) and every per-fold confusion
\* matrix is 2x2, whatever the fold held out and whatever was predicted; so the
\* aggregation never meets entries of different shapes, and the report holds
\* length-2 vectors and a 2x2 matrix.
C11_FormasDeDuasClasses ==
    (ChamadaCV /\ DuasClasses) =>
        /\ \A k \in 1 .. Len(lista_precisao) : Conta(DOMAIN lista_precisao[k]) = 2
        /\ \A k \in 1 .. Len(lista_recall) : Conta(DOMAIN lista_recall[k]) = 2
        /\ \A k \in 1 .. Len(lista_f1) : Conta(DOMAIN lista_f1[k]) = 2
        /\ \A k \in 1 .. Len(lista_matrizes) : Conta(DOMAIN lista_matrizes[k]) = 4
        /\ resultados # Nenhum =>
                /\ Conta(DOMAIN resultados[1].Precisao[1]) = 2
                /\ Conta(DOMAIN resultados[1].Matriz_de_Confusao[1]) = 4

RECURSIVE SomaSobre(_, _)
SomaSobre(f, S) ==
    IF S = {} THEN Zero
    ELSE LET x == CHOOSE x \in S : TRUE
         IN  FAdd(f[x], SomaSobre(f, S \ {x}))

SomaEntradas(matriz) == SomaSobre(matriz, DOMAIN matriz)

RECURSIVE SomaMatrizes(_)
SomaMatrizes(l) ==
    IF l = <<>> THEN Zero ELSE FAdd(SomaEntradas(l[1]), SomaMatrizes(Tail(l)))

FoldsDeTeste(r) == { i \in 1 .. n_splits : r \in indices_teste(i) }
FoldsDeTreino(r) == { i \in 1 .. n_splits : r \in indices_treino(i) }

\* C12: in validador_cruzado every row is held out in exactly one of the k folds
\* and trained on in the other k - 1; the entries of the matrix of fold i sum to
\* the size of its held-out partition, those of the k fold matrices to len(X),
\* those of the mean matrix to len(X) / k; and the mean accuracy is in [0, 1].
C12_CadaLinhaTestadaUmaVez ==
    (ChamadaCV /\ ~SplitInvalido(y, n_splits)) =>
        /\ \A r \in Linhas : /\ Conta(FoldsDeTeste(r)) = 1
                             /\ Conta(FoldsDeTreino(r)) = n_splits - 1
                             /\ FoldsDeTeste(r) \cap FoldsDeTreino(r) = {}
        /\ \A k \in 1 .. Len(lista_matrizes) :
                SomaEntradas(lista_matrizes[k]) = <<Conta(indices_teste(k)), 1>>
        /\ pc_ml \in {"agregar", "exibir", "retornou"} =>
                SomaMatrizes(lista_matrizes) = <<Len(y), 1>>
        /\ resultados # Nenhum =>
                /\ SomaEntradas(resultados[1].Matriz_de_Confusao[1])
                        = Norm(<<Len(y), n_splits>>)
                /\ FLe(Zero, resultados[1].Acuracia[1])
                /\ FLe(resultados[1].Acuracia[1], Um)

\* A returned report of three folds over six rows of both classes.
C12_Witness ==
    /\ ChamadaCV
    /\ pc_ml = "retornou"
    /\ DuasClasses
    /\ n_splits = 3
    /\ Len(y) = 6
    /\ SomaEntradas(resultados[1].Matriz_de_Confusao[1]) = <<2, 1>>

(***************************************************************************)
(* The fold body of validador_cruzado (ml_utils.py lines 139-140) and the  *)
(* trial body of objetivo_optuna (tuning_utils.py lines 87-89) as steps of *)
(* workers.  Under "sequencial" a fold (a trial) starts when the one       *)
(* before it is done, as the for loop and study.optimize run them; under   *)
(* "paralelo" the steps of different folds (trials) interleave freely.     *)
(***************************************************************************)
Folds == 1 .. k_folds
Tentativas == 1 .. n_tentativas

\* The estimator object the fold body uses: the modelo argument, object 1.
modelo_do_fold(i) == 1

\* Whether worker i may take its next step.
Vez(pcs, i) ==
    \/ agendamento = "paralelo"
    \/ \A j \in 1 .. (i - 1) : pcs[j] = "feito"

ParaleloInit ==
    /\ agendamento \in {"sequencial", "paralelo"}
    /\ k_folds \in 2 .. MaxSplits
    /\ n_tentativas \in 1 .. MaxIteracoes
    /\ heap = <<Nenhum>>
    /\ pc_fold = [i \in 1 .. k_folds |-> "fit"]
    /\ predicoes_fold = [i \in 1 .. k_folds |-> Nenhum]
    /\ pc_tentativa = [t \in 1 .. n_tentativas |-> "criar"]
    /\ modelo_tentativa = [t \in 1 .. n_tentativas |-> 0]
    /\ predicoes_tentativa = [t \in 1 .. n_tentativas |-> Nenhum]

entradasParalelo == <<agendamento, k_folds, n_tentativas>>

\* ml_utils.py line 139: modelo.fit(X_treino, y_treino).
FoldFit ==
    \E i \in Folds :
        /\ pc_fold[i] = "fit"
        /\ Vez(pc_fold, i)
        /\ heap' = [heap EXCEPT ![modelo_do_fold(i)] = Algum(<<"fold", i>>)]
        /\ pc_fold' = [pc_fold EXCEPT ![i] = "predict"]
        /\ UNCHANGED <<foraParalelo, entradasParalelo, predicoes_fold, pc_tentativa,
                       modelo_tentativa, predicoes_tentativa>>

\* ml_utils.py line 140: y_predito = modelo.predict(X_teste).
FoldPredict ==
    \E i \in Folds :
        /\ pc_fold[i] = "predict"
        /\ Vez(pc_fold, i)
        /\ predicoes_fold' = [predicoes_fold EXCEPT ![i] = heap[modelo_do_fold(i)]]
        /\ pc_fold' = [pc_fold EXCEPT ![i] = "feito"]
        /\ UNCHANGED <<foraParalelo, entradasParalelo, heap, pc_tentativa,
                       modelo_tentativa, predicoes_tentativa>>

\* tuning_utils.py line 87: modelo = classe_modelo(**parametros), a new object.
TentativaCria ==
    \E t \in Tentativas :
        /\ pc_tentativa[t] = "criar"
        /\ Vez(pc_tentativa, t)
        /\ heap' = Append(heap, Nenhum)
        /\ modelo_tentativa' = [modelo_tentativa EXCEPT ![t] = Len(heap) + 1]
        /\ pc_tentativa' = [pc_tentativa EXCEPT ![t] = "fit"]
        /\ UNCHANGED <<foraParalelo, entradasParalelo, pc_fold, predicoes_fold,
                       predicoes_tentativa>>

\* tuning_utils.py line 88: modelo.fit(X_treino, y_treino).
TentativaFit ==
    \E t \in Tentativas :
        /\ pc_tentativa[t] = "fit"
        /\ Vez(pc_tentativa, t)
        /\ heap' = [heap EXCEPT ![modelo_tentativa[t]] = Algum(<<"tentativa", t>>)]
        /\ pc_tentativa' = [pc_tentativa EXCEPT ![t] = "predict"]
        /\ UNCHANGED <<foraParalelo, entradasParalelo, pc_fold, predicoes_fold,
                       modelo_tentativa, predicoes_tentativa>>

\* tuning_utils.py line 89: y_predito = modelo.predict(X_validacao).
TentativaPredict ==
    \E t \in Tentativas :
        /\ pc_tentativa[t] = "predict"
        /\ Vez(pc_tentativa, t)
        /\ predicoes_tentativa' =
                [predicoes_tentativa EXCEPT ![t] = heap[modelo_tentativa[t]]]
        /\ pc_tentativa' = [pc_tentativa EXCEPT ![t] = "feito"]
        /\ UNCHANGED <<foraParalelo, entradasParalelo, heap, pc_fold, predicoes_fold,
                       modelo_tentativa>>

ParaleloNext ==
    \/ FoldFit
    \/ FoldPredict
    \/ TentativaCria
    \/ TentativaFit
    \/ TentativaPredict

InitParalelo ==
    /\ TuningParado /\ MLParado /\ ParaleloInit
    /\ BuscaParada /\ SugestaoParada /\ PreParado /\ TomlParado

SpecParalelo == InitParalelo /\ [][ParaleloNext]_vars

\* C13: folds and trials share no estimator object (two folds that have fitted,
\* and two trials that have constructed their model, hold different objects),
\* and under every interleaving a fold (a trial) that is done got its
\* predictions from the fit on its own training partition.
C13_SemEstadoCompartilhado ==
    /\ \A i, j \in Folds :
            (i # j /\ pc_fold[i] # "fit" /\ pc_fold[j] # "fit") =>
                modelo_do_fold(i) # modelo_do_fold(j)
    /\ \A t, u \in Tentativas :
            (t # u /\ modelo_tentativa[t] # 0 /\ modelo_tentativa[u] # 0) =>
                modelo_tentativa[t] # modelo_tentativa[u]
    /\ \A i \in Folds :
            pc_fold[i] = "feito" => predicoes_fold[i] = Algum(<<"fold", i>>)
    /\ \A t \in Tentativas :
            pc_tentativa[t] = "feito" =>
                predicoes_tentativa[t] = Algum(<<"tentativa", t>>)

(***************************************************************************)
(* objetivo_skopt (tuning_utils.py lines 44-63) given the list of regions  *)
(* of config/search_spaces.py lines 66-95.  BayesSearchCV.fit takes the    *)
(* search spaces of a list one after another and spends n_iter iterations  *)
(* on each, one candidate per iteration (n_points = 1), every candidate    *)
(* fitted and scored on each fold of cv; best_params_ is the first         *)
(* candidate of the highest mean score, and refit=True fits it once more.  *)
(***************************************************************************)
\* skopt.space.Real without a prior: the bounds themselves.
Real(a, b) == [tipo |-> "real", cats |-> {}, lo |-> a, hi |-> b, log |-> FALSE]

\* search_spaces.py lines 66-71.
common_params ==
    [ C |-> Float(-6, 6, TRUE),
      max_iter |-> Int_(50, 2000),
      tol |-> Float(-6, -2, TRUE),
      fit_intercept |-> Cat({"True", "False"}) ]

\* search_spaces.py lines 73-95: the dimensions of region i.
dimensoes(regiao) ==
    IF regiao.l1_ratio
    THEN common_params @@ [penalty |-> Cat(regiao.penalty),
                           solver |-> Cat(regiao.solver),
                           l1_ratio |-> Real(0, 1)]
    ELSE common_params @@ [penalty |-> Cat(regiao.penalty),
                           solver |-> Cat(regiao.solver)]

espaco_busca == [i \in 1 .. Len(search_spaces_skopt) |-> dimensoes(search_spaces_skopt[i])]

\* One dict holding the union of the regions' dimensions.
PontosMisturados(i) ==
    Assignments(common_params @@
        [penalty |-> Cat(UNION { search_spaces_skopt[j].penalty :
                                    j \in 1 .. Len(search_spaces_skopt) }),
         solver |-> Cat(UNION { search_spaces_skopt[j].solver :
                                    j \in 1 .. Len(search_spaces_skopt) })])

\* The points the optimizer of search space i can ask for.
PontosDoEspaco(i) == Assignments(espaco_busca[i])

\* Whether a value is one the dimension declares.
DentroDe(v, regra) ==
    IF regra.tipo = "categorical" THEN v \in regra.cats
    ELSE regra.lo <= v /\ v <= regra.hi

\* Whether an assignment is a point of a space: its keys, each within its dimension.
Pertence(p, espaco) ==
    /\ DOMAIN p = DOMAIN espaco
    /\ \A h \in DOMAIN p : DentroDe(p[h], espaco[h])

\* Mean test scores, as ranks.
Notas == {0, 1}

BuscaInit ==
    /\ busca_n_iter \in 1 .. MaxIteracoes
    /\ busca_pc = "inicio"
    /\ busca_espaco = 0
    /\ busca_restam = 0
    /\ busca_avaliados = 0
    /\ busca_fits = 0
    /\ busca_melhor = Nenhum
    /\ busca_retorno = Nenhum
    /\ busca_erro = "None"
    /\ busca_saida = <<>>

\* Lines 45-57: KFold, the estimator, BayesSearchCV; fit starts on the first
\* search space with n_iter iterations to spend.
BuscaInicio ==
    /\ busca_pc = "inicio"
    /\ busca_pc' = "passo"
    /\ busca_espaco' = 1
    /\ busca_restam' = busca_n_iter
    /\ UNCHANGED <<foraBusca, busca_n_iter, busca_avaliados, busca_fits, busca_melhor,
                   busca_retorno, busca_erro, busca_saida>>

\* One iteration on the current search space: a candidate of that space, fitted
\* and scored on each of the N_SPLITS folds.
BuscaPasso ==
    /\ busca_pc = "passo"
    /\ busca_restam > 0
    /\ \E p \in PontosDoEspaco(busca_espaco), nota \in Notas :
        /\ busca_melhor' =
                IF busca_melhor = Nenhum \/ nota > busca_melhor[1].nota
                THEN Algum([params |-> p, nota |-> nota])
                ELSE busca_melhor
    /\ busca_avaliados' = busca_avaliados + 1
    /\ busca_fits' = busca_fits + N_SPLITS
    /\ busca_restam' = busca_restam - 1
    /\ UNCHANGED <<foraBusca, busca_n_iter, busca_pc, busca_espaco, busca_retorno,
                   busca_erro, busca_saida>>

\* The iterations of a search space are spent: the next one gets n_iter again;
\* after the last, the search is over.
BuscaProximoEspaco ==
    /\ busca_pc = "passo"
    /\ busca_restam = 0
    /\ IF busca_espaco < Len(espaco_busca)
       THEN /\ busca_espaco' = busca_espaco + 1
            /\ busca_restam' = busca_n_iter
            /\ UNCHANGED busca_pc
       ELSE /\ busca_pc' = "refit"
            /\ UNCHANGED <<busca_espaco, busca_restam>>
    /\ UNCHANGED <<foraBusca, busca_n_iter, busca_avaliados, busca_fits, busca_melhor,
                   busca_retorno, busca_erro, busca_saida>>

\* Lines 57-60: the refit on all rows, best_params_, the print and the return.
BuscaRetorna ==
    /\ busca_pc = "refit"
    /\ busca_fits' = busca_fits + 1
    /\ busca_retorno' = Algum(busca_melhor[1].params)
    /\ busca_saida' = Append(busca_saida, "Melhores Hiperparametros (skopt)")
    /\ busca_pc' = "retornou"
    /\ UNCHANGED <<foraBusca, busca_n_iter, busca_espaco, busca_restam, busca_avaliados,
                   busca_melhor, busca_erro>>

\* Lines 61-63: anything fit raises is printed and raised again.
BuscaLevanta ==
    /\ busca_pc \in {"passo", "refit"}
    /\ \E exc \in Excecoes : busca_erro' = exc
    /\ busca_saida' = Append(busca_saida, "Erro durante a execucao do BayesSearchCV")
    /\ busca_pc' = "levantou"
    /\ UNCHANGED <<foraBusca, busca_n_iter, busca_espaco, busca_restam, busca_avaliados,
                   busca_fits, busca_melhor, busca_retorno>>

BuscaNext ==
    \/ BuscaInicio
    \/ BuscaPasso
    \/ BuscaProximoEspaco
    \/ BuscaRetorna
    \/ BuscaLevanta

InitBusca ==
    /\ TuningParado /\ MLParado /\ BuscaInit
    /\ ParaleloParado /\ SugestaoParada /\ PreParado /\ TomlParado

SpecBusca == InitBusca /\ [][BuscaNext]_vars

EspacosDe(p) == { i \in 1 .. Len(espaco_busca) : Pertence(p, espaco_busca[i]) }
PenalidadesDe(i) == espaco_busca[i].penalty.cats

\* C14: the regions are pairwise disjoint, told apart by penalty; the best
\* candidate so far of the point-based search, and the assignment it returns,
\* is a point of exactly one region: its solver is one that region allows, and
\* it holds l1_ratio only with the elasticnet penalty.
C14_UmaRegiaoPorAtribuicao ==
    /\ \A i, j \in 1 .. Len(espaco_busca) :
            i # j => PenalidadesDe(i) \cap PenalidadesDe(j) = {}
    /\ busca_melhor # Nenhum =>
            LET p == busca_melhor[1].params IN
            /\ Conta(EspacosDe(p)) = 1
            /\ \A i \in EspacosDe(p) : p.penalty \in PenalidadesDe(i)
            /\ \A i \in 1 .. Len(espaco_busca) :
                    p.penalty \in PenalidadesDe(i) =>
                        p.solver \in espaco_busca[i].solver.cats
            /\ "l1_ratio" \in DOMAIN p <=> p.penalty = "elasticnet"
    /\ busca_retorno # Nenhum =>
            /\ Conta(EspacosDe(busca_retorno[1])) = 1
            /\ busca_retorno[1] = busca_melhor[1].params

\* A search that returned a point of the elasticnet region.
C14_Witness ==
    /\ busca_pc = "retornou"
    /\ busca_retorno[1].penalty = "elasticnet"
    /\ busca_retorno[1].solver = "saga"
    /\ EspacosDe(busca_retorno[1]) = {3}

\* C17: a point-based search that returns has evaluated n_iteracoes candidates
\* in total, all regions together, each on the three folds (and fitted the
\* best once more), and returns one assignment, the best.
C17_TotalDeAvaliacoes ==
    busca_pc = "retornou" =>
        /\ busca_avaliados = busca_n_iter
        /\ busca_fits = N_SPLITS * busca_n_iter + 1
        /\ busca_retorno = Algum(busca_melhor[1].params)

(***************************************************************************)
(* config/modelos.py: the models to tune, and tunar_modelo called for one  *)
(* of them, up to its dispatch on metodo (tuning_utils.py lines 121-131,   *)
(* 155-157, 169-170).                                                      *)
(***************************************************************************)
ModeloConfigurado(nome, classe, met, espaco, fixos) ==
    [nome |-> nome, classe |-> classe, metodo |-> met, search_space |-> espaco,
     parametros_fixos |-> fixos]

\* A list whose last entry is a model the sampled registry has no space for.
modelos_com_modelo_sem_espaco ==
    << ModeloConfigurado("logistic_regression", "LogisticRegression", "skopt",
                         "search_spaces_skopt", {}),
       ModeloConfigurado("decision_tree", "DecisionTreeClassifier", "optuna",
                         "search_spaces_optuna", {}),
       ModeloConfigurado("gradient_boosting", "GradientBoostingClassifier", "optuna",
                         "search_spaces_optuna", {}) >>

\* modelos.py lines 17-67.
modelos ==
    << ModeloConfigurado("logistic_regression", "LogisticRegression", "skopt",
                         "search_spaces_skopt", {}),
       ModeloConfigurado("decision_tree", "DecisionTreeClassifier", "optuna",
                         "search_spaces_optuna", {}),
       ModeloConfigurado("random_forest", "RandomForestClassifier", "optuna",
                         "search_spaces_optuna", {}),
       ModeloConfigurado("naive_bayes", "GaussianNB", "optuna",
                         "search_spaces_optuna", {}),
       ModeloConfigurado("knn", "KNeighborsClassifier", "optuna",
                         "search_spaces_optuna", {}),
       ModeloConfigurado("svc", "SVC", "optuna",
                         "search_spaces_optuna", {<<"probability", "True">>}),
       ModeloConfigurado("mlp", "MLPClassifier", "optuna",
                         "search_spaces_optuna", {}) >>

\* The caller of tunar_modelo hands over the space the entry names, in the
\* argument of that shape, and nothing in the other.
ArgumentoOptuna(m) ==
    IF m.search_space = "search_spaces_optuna" THEN Algum(search_spaces_optuna)
    ELSE Nenhum
ArgumentoSkopt(m) ==
    IF m.search_space = "search_spaces_skopt" THEN Algum(search_spaces_skopt)
    ELSE Nenhum

ModelosInit ==
    /\ \E k \in 1 .. Len(modelos) :
            /\ nome_modelo = modelos[k].nome
            /\ metodo = modelos[k].metodo
            /\ espacos_busca_optuna = ArgumentoOptuna(modelos[k])
            /\ espaco_busca_skopt = ArgumentoSkopt(modelos[k])
    /\ n_iteracoes \in 1 .. MaxIteracoes
    /\ n_amostras \in 2 .. MaxAmostras
    /\ embaralhamento \in Embaralhamentos(n_amostras)
    /\ pc = "inicio"
    /\ saida = <<>>
    /\ kfold = Nenhum
    /\ estudos = <<>>
    /\ estudo = Nenhum
    /\ n_ajustes = 0
    /\ retorno = Nenhum
    /\ erro = "None"
    /\ ajustes = {}
    /\ anteriores = <<>>

DespachoNext ==
    \/ TunarInicio
    \/ TunarDespacho

InitModelos == ModelosInit /\ MLParado /\ OutrosParados

SpecModelos == InitModelos /\ [][DespachoNext]_vars

\* C15: every entry of modelos with metodo "optuna" has its nome among the keys
\* of search_spaces_optuna and names that registry, every entry with metodo
\* "skopt" names search_spaces_skopt, none names the space of the other method;
\* and tunar_modelo called for a configured model gets past its dispatch
\* without raising.
C15_ModelosResolvem ==
    /\ \A k \in 1 .. Len(modelos) :
        LET m == modelos[k] IN
        /\ m.metodo \in {"optuna", "skopt"}
        /\ m.metodo = "optuna" =>
                /\ m.nome \in DOMAIN search_spaces_optuna
                /\ m.search_space = "search_spaces_optuna"
        /\ m.metodo = "skopt" => m.search_space = "search_spaces_skopt"
    /\ metodo = "optuna" =>
            /\ espacos_busca_optuna # Nenhum
            /\ nome_modelo \in DOMAIN espacos_busca_optuna[1]
    /\ metodo = "skopt" => espaco_busca_skopt # Nenhum
    /\ pc # "levantou"
    /\ erro = "None"

\* The dispatch has sent the skopt-configured model to the point-based search.
C15_Witness ==
    /\ nome_modelo = "logistic_regression"
    /\ metodo = "skopt"
    /\ pc = "skopt"
    /\ espacos_busca_optuna = Nenhum

(***************************************************************************)
(* objetivo_optuna lines 83-86 for each model of the registry: every rule  *)
(* asks the trial for a value under a name, the trial records it under     *)
(* that name, and the dict comprehension keeps it under the registry key.  *)
(* A study's best_params is the record of its best trial, which is what    *)
(* tunar_modelo returns (lines 149-153).                                   *)
(***************************************************************************)
\* search_spaces.py lines 14-61: the name each lambda passes to suggest_*.
nomes_sugeridos ==
    [ decision_tree |->
        [ criterion |-> "criterion", max_depth |-> "max_depth",
          min_samples_split |-> "min_samples_split",
          min_samples_leaf |-> "min_samples_leaf",
          max_features |-> "max_features", ccp_alpha |-> "ccp_alpha" ],
      random_forest |->
        [ n_estimators |-> "n_estimators", criterion |-> "criterion",
          max_depth |-> "max_depth", min_samples_split |-> "min_samples_split",
          min_samples_leaf |-> "min_samples_leaf", max_features |-> "max_features",
          bootstrap |-> "bootstrap", ccp_alpha |-> "ccp_alpha" ],
      naive_bayes |-> [ var_smoothing |-> "var_smoothing" ],
      knn |->
        [ n_neighbors |-> "n_neighbors", weights |-> "weights", metric |-> "metric",
          algorithm |-> "algorithm", leaf_size |-> "leaf_size", p |-> "p" ],
      svc |-> [ C |-> "C", kernel |-> "kernel", tol |-> "tol", max_iter |-> "max_iter" ],
      mlp |->
        [ hidden_layer_sizes |-> "hidden_layer_sizes", activation |-> "activation",
          solver |-> "solver", alpha |-> "alpha", learning_rate |-> "learning_rate",
          learning_rate_init |-> "learning_rate_init", max_iter |-> "max_iter",
          tol |-> "tol" ] ]

\* A lambda that asks for max_depth under another name.
nome_sugerido_trocado(modelo, h) ==
    IF h = "max_depth" THEN "depth" ELSE nomes_sugeridos[modelo][h]

nome_sugerido(modelo, h) == nomes_sugeridos[modelo][h]

SugestaoInit ==
    /\ sug_modelo \in DOMAIN search_spaces_optuna
    /\ sug_sorteio \in Assignments(search_spaces_optuna[sug_modelo])
    /\ sug_pc = "inicio"
    /\ sug_params = <<>>
    /\ sug_parametros = Nenhum
    /\ sug_retorno = Nenhum

\* Lines 83-86.
Sugere ==
    /\ sug_pc = "inicio"
    /\ LET espaco == search_spaces_optuna[sug_modelo]
           nomes == { nome_sugerido(sug_modelo, h) : h \in DOMAIN espaco }
       IN  /\ sug_params' =
                [n \in nomes |->
                    sug_sorteio[CHOOSE h \in DOMAIN espaco :
                                    nome_sugerido(sug_modelo, h) = n]]
           /\ sug_parametros' = Algum([h \in DOMAIN espaco |-> sug_sorteio[h]])
    /\ sug_pc' = "sugerido"
    /\ UNCHANGED <<foraSugestao, sug_modelo, sug_sorteio, sug_retorno>>

\* Lines 149-153 when this trial is the best of the best study.
SugestaoRetorna ==
    /\ sug_pc = "sugerido"
    /\ sug_retorno' = Algum(sug_params)
    /\ sug_pc' = "retornou"
    /\ UNCHANGED <<foraSugestao, sug_modelo, sug_sorteio, sug_params, sug_parametros>>

SugestaoNext ==
    \/ Sugere
    \/ SugestaoRetorna

InitSugestao ==
    /\ TuningParado /\ MLParado /\ SugestaoInit
    /\ ParaleloParado /\ BuscaParada /\ PreParado /\ TomlParado

SpecSugestao == InitSugestao /\ [][SugestaoNext]_vars

\* C16: what a sampled-search tune call returns for a model of the registry has
\* exactly the hyperparameter names declared for that model as keys (the six
\* of decision_tree for decision_tree), each value within its declared range
\* or categorical set.
C16_ChavesEValoresDeclarados ==
    sug_retorno # Nenhum =>
        LET espaco == search_spaces_optuna[sug_modelo]
            r == sug_retorno[1]
        IN  /\ DOMAIN r = DOMAIN espaco
            /\ \A h \in DOMAIN r : DentroDe(r[h], espaco[h])
            /\ sug_modelo = "decision_tree" =>
                    DOMAIN r = {"criterion", "max_depth", "min_samples_split",
                                "min_samples_leaf", "max_features", "ccp_alpha"}

\* A returned decision_tree assignment at the upper end of max_depth.
C16_Witness ==
    /\ sug_pc = "retornou"
    /\ sug_modelo = "decision_tree"
    /\ sug_retorno[1].max_depth = 100
    /\ sug_retorno[1].criterion = "entropy"

(***************************************************************************)
(* config/feriados.py.  A date is <<ano, mes, dia>>.                       *)
(***************************************************************************)
Bissexto(ano) == (ano % 4 = 0 /\ ano % 100 # 0) \/ ano % 400 = 0

DiasDoMes(ano, m) ==
    IF m = 2 THEN (IF Bissexto(ano) THEN 29 ELSE 28)
    ELSE IF m \in {4, 6, 9, 11} THEN 30 ELSE 31

RECURSIVE DiasAntesDoMes(_, _)
DiasAntesDoMes(ano, m) ==
    IF m = 1 THEN 0 ELSE DiasAntesDoMes(ano, m - 1) + DiasDoMes(ano, m - 1)

\* The day of the year of a date, and the date of a day of the year.
Ordinal(d) == DiasAntesDoMes(d[1], d[2]) + d[3]
DataDoOrdinal(ano, n) ==
    LET m == CHOOSE k \in 1 .. 12 :
                /\ DiasAntesDoMes(ano, k) < n
                /\ n <= DiasAntesDoMes(ano, k) + DiasDoMes(ano, k)
    IN  <<ano, m, n - DiasAntesDoMes(ano, m)>>

\* date + Day(k), for dates that stay within the year.
MaisDias(d, k) == DataDoOrdinal(d[1], Ordinal(d) + k)

\* dateutil.easter.easter(ano), the western method (line 35).
easter(ano) ==
    LET g == ano % 19
        c == ano \div 100
        h == (c - (c \div 4) - ((8 * c + 13) \div 25) + 19 * g + 15) % 30
        i == h - (h \div 28) * (1 - (h \div 28) * (29 \div (h + 1)) * ((21 - g) \div 11))
        j == (ano + (ano \div 4) + i + 2 - c + (c \div 4)) % 7
        p == i - j
    IN  <<ano, 3 + ((p + 26) \div 30), 1 + ((p + 27 + ((p + 6) \div 40)) % 31)>>

\* Lines 35-51.
gerar_feriados(ano) ==
    LET pascoa == easter(ano)
    IN  << <<ano, 1, 1>>,
           MaisDias(pascoa, -48),
           MaisDias(pascoa, -47),
           MaisDias(pascoa, -2),
           <<ano, 4, 21>>,
           <<ano, 5, 1>>,
           MaisDias(pascoa, 60),
           <<ano, 9, 7>>,
           <<ano, 10, 12>>,
           <<ano, 11, 2>>,
           <<ano, 11, 15>>,
           <<ano, 12, 25>>,
           <<ano, 4, 23>> >>

\* The years requested here.
Anos == {2023, 2024, 2025}

\* A lookup that never finds the year.
NuncaEmCache(ano) == FALSE

\* Line 56: ano in FERIADOS_POR_ANO.
EmCache(ano) == ano \in DOMAIN FERIADOS_POR_ANO

\* Lines 56-58 as an update of the dict, the calls of gerar_feriados and the
\* value returned.
CacheApos(ano) ==
    IF EmCache(ano) THEN FERIADOS_POR_ANO
    ELSE (ano :> gerar_feriados(ano)) @@ FERIADOS_POR_ANO
GeracoesApos(ano) ==
    IF EmCache(ano) THEN geracoes ELSE Append(geracoes, ano)

\* obter_feriados_ano(ano).
Obter(ano) ==
    /\ FERIADOS_POR_ANO' = CacheApos(ano)
    /\ geracoes' = GeracoesApos(ano)
    /\ pedidos' = Append(pedidos, ano)
    /\ respostas' = Append(respostas, CacheApos(ano)[ano])

PreInit ==
    /\ FERIADOS_POR_ANO = <<>>
    /\ pedidos = <<>>
    /\ geracoes = <<>>
    /\ respostas = <<>>
    /\ pre_funcao = ""
    /\ pre_entrada = <<>>
    /\ pre_pc = "ocioso"
    /\ pre_retorno = Nenhum
    /\ pre_erro = "None"
    /\ pre_impresso = <<>>

chamada == <<pre_funcao, pre_entrada, pre_pc, pre_retorno, pre_erro, pre_impresso>>
cache == <<FERIADOS_POR_ANO, pedidos, geracoes, respostas>>

\* A call of obter_feriados_ano from outside the helpers.
ObterFeriadosAno ==
    /\ pre_pc = "ocioso"
    /\ Len(pedidos) < MaxPedidos
    /\ \E ano \in Anos : Obter(ano)
    /\ UNCHANGED <<foraPre, chamada>>

(***************************************************************************)
(* utils/preprocessingUtils.py: eh_feriado, define_gravidade,              *)
(* converte_features_ciclicas and remove_outliers.  A cell of a row is     *)
(* absent, a date, a number, a text that is neither, or null.              *)
(***************************************************************************)
Cel(tipo, v) == [tipo |-> tipo, v |-> v]
Ausente == Cel("ausente", 0)
Nulo == Cel("nulo", 0)
Texto == Cel("texto", 0)

\* Dates of a year: holidays and ordinary days.
DatasDe(ano) == { <<ano, 1, 1>>, <<ano, 3, 15>>, <<ano, 4, 23>>,
                  gerar_feriados(ano)[2], <<ano, 12, 24>> }

CelulasDeData ==
    {Ausente, Nulo, Texto} \cup { Cel("data", d) : d \in UNION { DatasDe(a) : a \in Anos } }

CelulasDeContagem == {Ausente, Nulo, Texto, Cel("int", 0), Cel("int", 2)}

\* A handler that prints and raises again.
RelancaErro(mensagem) ==
    /\ pre_impresso' = <<mensagem>>
    /\ pre_retorno' = Nenhum
    /\ pre_erro' = "Exception"
    /\ pre_pc' = "levantou"

\* Lines 88-93 and 283-288: the except clauses print and return 0.
EngoleErro(mensagem) ==
    /\ pre_impresso' = <<mensagem>>
    /\ pre_retorno' = Algum(0)
    /\ pre_erro' = "None"
    /\ pre_pc' = "retornou"

Devolve(valor) ==
    /\ pre_impresso' = <<>>
    /\ pre_retorno' = Algum(valor)
    /\ pre_erro' = "None"
    /\ pre_pc' = "retornou"

Contem(lista, x) == \E k \in 1 .. Len(lista) : lista[k] = x

\* Lines 83-93.  row['data_inversa'] of a row without the column raises
\* KeyError; a text that is no date, or a null, fails in to_datetime, in
\* normalize or in gerar_feriados, before the dict is written.
EhFeriado ==
    /\ pre_pc = "ocioso"
    /\ \E cel \in CelulasDeData :
        /\ pre_funcao' = "eh_feriado"
        /\ pre_entrada' = [data_inversa |-> cel]
        /\ IF cel.tipo = "ausente"
           THEN /\ EngoleErro("[Erro] Coluna 'data_inversa' ausente na linha")
                /\ UNCHANGED cache
           ELSE IF cel.tipo # "data"
           THEN /\ EngoleErro("[Erro] Falha ao verificar feriado na linha")
                /\ UNCHANGED cache
           ELSE /\ Len(pedidos) < MaxPedidos
                /\ Obter(cel.v[1])
                /\ Devolve(IF Contem(CacheApos(cel.v[1])[cel.v[1]], cel.v) THEN 1 ELSE 0)
    /\ UNCHANGED foraPre

ContagensDaLinha == <<"mortos", "feridos_graves", "feridos_leves", "ilesos">>

\* int(row.get(coluna, 0)): the default for an absent column; int() refuses a
\* text that is no number (ValueError) and None (TypeError).
Inteiro(cel) == IF cel.tipo = "int" THEN cel.v ELSE 0
Invalida(cel) == cel.tipo \in {"texto", "nulo"}

\* Lines 271-288.
DefineGravidade ==
    /\ pre_pc = "ocioso"
    /\ \E row \in [{"mortos", "feridos_graves", "feridos_leves", "ilesos"}
                        -> CelulasDeContagem] :
        /\ pre_funcao' = "define_gravidade"
        /\ pre_entrada' = row
        /\ IF \E k \in 1 .. Len(ContagensDaLinha) : Invalida(row[ContagensDaLinha[k]])
           THEN EngoleErro("[Erro] Dados invalidos para definir gravidade na linha")
           ELSE Devolve(IF Inteiro(row["mortos"]) > 0 \/ Inteiro(row["feridos_graves"]) > 0
                        THEN 1 ELSE 0)
    /\ UNCHANGED <<foraPre, cache>>

(***************************************************************************)
(* A DataFrame is a function from its column names to columns; a column    *)
(* has a dtype and one value per row.                                      *)
(***************************************************************************)
ColunasDf == {"hora", "mes"}
ValoresDf == {1, 100}
ValorMaximo(coluna) == IF coluna = "hora" THEN 24 ELSE 12
NomeSen(coluna) == IF coluna = "hora" THEN "horaSen" ELSE "mesSen"
NomeCos(coluna) == IF coluna = "hora" THEN "horaCos" ELSE "mesCos"

ColunasDeTamanho(n) ==
    {[dtype |-> "str", valores |-> [k \in 1 .. n |-> 0]]}
        \cup { [dtype |-> "num", valores |-> v] : v \in [1 .. n -> ValoresDf] }

DataFrames ==
    UNION { UNION { [presentes -> ColunasDeTamanho(n)] : presentes \in SUBSET ColunasDf }
            : n \in 1 .. MaxLinhasDf }

ListasDeColunas == {<<"hora">>, <<"mes">>, <<"hora", "mes">>, <<"mes", "hora">>}

SemColuna(df, coluna) == [c \in DOMAIN df \ {coluna} |-> df[c]]

\* Lines 218-220: sin and cos of 2*pi*valor/valorMaximo, kept unevaluated.
Ciclica(seno_ou_cosseno, coluna, valorMaximo) ==
    [dtype |-> "num",
     valores |-> [k \in 1 .. Len(coluna.valores) |->
                    <<seno_ou_cosseno, coluna.valores[k], valorMaximo>>]]

AvisoAusenteCiclica(coluna) == <<"[Aviso] Coluna nao encontrada. Pulando conversao ciclica.", coluna>>
ErroTipoCiclica(coluna) == <<"[Erro] Tipo invalido durante conversao ciclica: deve ser numerica", coluna>>

\* Lines 209-227: the loop over zip(colunas, valores_maximos), on the frame
\* the caller passed (columns are added and dropped in place).
RECURSIVE converte_features_ciclicas(_, _, _, _)
converte_features_ciclicas(df, colunas, valores_maximos, avisos) ==
    IF colunas = <<>> \/ valores_maximos = <<>>
    THEN [df |-> df, impresso |-> avisos, erro |-> "None"]
    ELSE LET coluna == Head(colunas)
         IN IF coluna \notin DOMAIN df
            THEN converte_features_ciclicas(df, Tail(colunas), Tail(valores_maximos),
                                            Append(avisos, AvisoAusenteCiclica(coluna)))
            ELSE IF df[coluna].dtype # "num"
            THEN [df |-> df, impresso |-> Append(avisos, ErroTipoCiclica(coluna)),
                  erro |-> "TypeError"]
            ELSE converte_features_ciclicas(
                    (NomeSen(coluna) :> Ciclica("sin", df[coluna], Head(valores_maximos)))
                      @@ (NomeCos(coluna) :> Ciclica("cos", df[coluna], Head(valores_maximos)))
                      @@ SemColuna(df, coluna),
                    Tail(colunas), Tail(valores_maximos), avisos)

\* The k-th smallest value of a column (1-based).
KEsimo(valores, k) ==
    CHOOSE v \in { valores[i] : i \in DOMAIN valores } :
        /\ Cardinality({ i \in DOMAIN valores : valores[i] < v }) < k
        /\ Cardinality({ i \in DOMAIN valores : valores[i] <= v }) >= k

\* Series.quantile(numerador/4) with linear interpolation, times 4.
Quantil4(valores, numerador) ==
    LET posicao == numerador * (Len(valores) - 1)
        baixo == (posicao \div 4) + 1
        resto == posicao % 4
    IN IF resto = 0 THEN 4 * KEsimo(valores, baixo)
       ELSE 4 * KEsimo(valores, baixo)
              + resto * (KEsimo(valores, baixo + 1) - KEsimo(valores, baixo))

\* Lines 249-254: the rows inside [q1 - 1.5*iqr, q3 + 1.5*iqr]; both sides of
\* each comparison are multiplied by 8.
LinhasDentro(valores) ==
    LET q1 == Quantil4(valores, 1)
        q3 == Quantil4(valores, 3)
        iqr == q3 - q1
    IN { i \in DOMAIN valores : /\ 8 * valores[i] >= 2 * q1 - 3 * iqr
                                /\ 8 * valores[i] <= 2 * q3 + 3 * iqr }

RECURSIVE Selecao(_, _)
Selecao(valores, manter) ==
    IF valores = <<>> THEN <<>>
    ELSE LET resto == Selecao(SubSeq(valores, 1, Len(valores) - 1), manter)
         IN IF Len(valores) \in manter THEN Append(resto, valores[Len(valores)]) ELSE resto

Filtrado(df, manter) ==
    [c \in DOMAIN df |-> [dtype |-> df[c].dtype, valores |-> Selecao(df[c].valores, manter)]]

AvisoAusenteOutliers(coluna) == <<"[Aviso] Coluna nao encontrada. Pulando remocao de outliers.", coluna>>
AvisoNaoNumerica(coluna) == <<"[Aviso] Coluna nao e numerica. Pulando remocao de outliers.", coluna>>

\* Lines 240-259: the loop over colunas; df is rebound to the filtered frame.
RECURSIVE remove_outliers(_, _, _)
remove_outliers(df, colunas, avisos) ==
    IF colunas = <<>>
    THEN [df |-> df, impresso |-> avisos, erro |-> "None"]
    ELSE LET coluna == Head(colunas)
         IN IF coluna \notin DOMAIN df
            THEN remove_outliers(df, Tail(colunas), Append(avisos, AvisoAusenteOutliers(coluna)))
            ELSE IF df[coluna].dtype # "num"
            THEN remove_outliers(df, Tail(colunas), Append(avisos, AvisoNaoNumerica(coluna)))
            ELSE remove_outliers(Filtrado(df, LinhasDentro(df[coluna].valores)),
                                 Tail(colunas), avisos)

\* The call returns the frame, or the exception leaves the handlers that
\* print and raise again.
Encerra(r) ==
    /\ pre_impresso' = r.impresso
    /\ pre_erro' = r.erro
    /\ pre_retorno' = IF r.erro = "None" THEN Algum(r.df) ELSE Nenhum
    /\ pre_pc' = IF r.erro = "None" THEN "retornou" ELSE "levantou"

ConverteFeaturesCiclicas ==
    /\ pre_pc = "ocioso"
    /\ \E df \in DataFrames, colunas \in ListasDeColunas :
        LET r == converte_features_ciclicas(
                    df, colunas, [k \in 1 .. Len(colunas) |-> ValorMaximo(colunas[k])], <<>>)
        IN /\ pre_funcao' = "converte_features_ciclicas"
           /\ pre_entrada' = [df |-> df, colunas |-> colunas, df_depois |-> r.df]
           /\ Encerra(r)
    /\ UNCHANGED <<foraPre, cache>>

RemoveOutliers ==
    /\ pre_pc = "ocioso"
    /\ \E df \in DataFrames, colunas \in ListasDeColunas :
        LET r == remove_outliers(df, colunas, <<>>)
        IN /\ pre_funcao' = "remove_outliers"
           /\ pre_entrada' = [df |-> df, colunas |-> colunas, df_depois |-> df]
           /\ Encerra(r)
    /\ UNCHANGED <<foraPre, cache>>

\* The caller takes the result and is free to call again.
PreProxima ==
    /\ pre_pc \in {"retornou", "levantou"}
    /\ pre_pc' = "ocioso"
    /\ pre_funcao' = ""
    /\ pre_entrada' = <<>>
    /\ pre_retorno' = Nenhum
    /\ pre_erro' = "None"
    /\ pre_impresso' = <<>>
    /\ UNCHANGED <<foraPre, cache>>

PreNext ==
    \/ ObterFeriadosAno
    \/ EhFeriado
    \/ DefineGravidade
    \/ ConverteFeaturesCiclicas
    \/ RemoveOutliers
    \/ PreProxima

InitPre ==
    /\ TuningParado /\ MLParado
    /\ ParaleloParado /\ BuscaParada /\ SugestaoParada /\ TomlParado
    /\ PreInit

SpecPre == InitPre /\ [][PreNext]_vars

(***************************************************************************)
(* C18, C19: the holiday cache and the error handling of the helpers.      *)
(***************************************************************************)
AnosPedidos == { pedidos[k] : k \in 1 .. Len(pedidos) }
Primeiro(ano) == CHOOSE k \in 1 .. Len(pedidos) :
                    /\ pedidos[k] = ano
                    /\ \A j \in 1 .. k - 1 : pedidos[j] # ano

\* C18: after any sequence of obter_feriados_ano calls, FERIADOS_POR_ANO has
\* an entry for exactly the years requested so far; each entry was generated
\* by a single gerar_feriados call, on the first request for its year, still
\* holds what that call produced, and every request for a year returned the
\* same sequence as the first request for that year.
C18_CacheExatoEEstavel ==
    /\ DOMAIN FERIADOS_POR_ANO = AnosPedidos
    /\ \A ano \in AnosPedidos :
        /\ Cardinality({ k \in 1 .. Len(geracoes) : geracoes[k] = ano }) = 1
        /\ FERIADOS_POR_ANO[ano] = respostas[Primeiro(ano)]
    /\ \A k \in 1 .. Len(pedidos) : respostas[k] = respostas[Primeiro(pedidos[k])]
    /\ \A j, k \in 1 .. Len(geracoes) :
        j < k => Primeiro(geracoes[j]) < Primeiro(geracoes[k])

\* A year requested a second time after another year was requested.
C18_Witness ==
    \E i, j, k \in 1 .. Len(pedidos) :
        /\ i < j /\ j < k
        /\ pedidos[i] = pedidos[k]
        /\ pedidos[j] # pedidos[i]
        /\ Len(geracoes) = 2

Encerrada(nome) == pre_funcao = nome /\ pre_pc \in {"retornou", "levantou"}

Listadas == { pre_entrada.colunas[k] : k \in 1 .. Len(pre_entrada.colunas) }
ListadasAusentes == { c \in Listadas : c \notin DOMAIN pre_entrada.df }
ListadasNaoNumericas ==
    { c \in Listadas : c \in DOMAIN pre_entrada.df /\ pre_entrada.df[c].dtype # "num" }
ContagensInvalidas ==
    { c \in DOMAIN pre_entrada : Invalida(pre_entrada[c]) }

\* The call that ended was given a missing column or a value of the wrong type.
EntradaComDefeito ==
    \/ Encerrada("eh_feriado") /\ pre_entrada.data_inversa.tipo # "data"
    \/ Encerrada("define_gravidade") /\ ContagensInvalidas # {}
    \/ Encerrada("converte_features_ciclicas")
         /\ ListadasAusentes \cup ListadasNaoNumericas # {}
    \/ Encerrada("remove_outliers")
         /\ ListadasAusentes \cup ListadasNaoNumericas # {}

Avisou(coluna) == \E k \in 1 .. Len(pre_impresso) : pre_impresso[k][2] = coluna

LinhasDeRequisitos ==
    { [recuada |-> FALSE, texto |-> ""],
      [recuada |-> FALSE, texto |-> "# gerado"],
      [recuada |-> TRUE,  texto |-> "# nota"],
      [recuada |-> FALSE, texto |-> "requests==2.31"],
      [recuada |-> FALSE, texto |-> "uvicorn[standard]==0.30"] }

SequenciasAte(S, n) == UNION { [1 .. k -> S] : k \in 0 .. n }

ArquivosDeRequisitos ==
    { [legivel |-> TRUE, linhas |-> l] : l \in SequenciasAte(LinhasDeRequisitos, MaxLinhasReq) }
        \cup { [legivel |-> FALSE, linhas |-> <<>>] }

ComecaComCardinal(texto) == texto \in {"# gerado", "# nota"}

\* linha.strip() and linha.startswith("#") of line 28.
strip(linha) == linha.texto
startswith_cardinal(linha) == ~linha.recuada /\ ComecaComCardinal(linha.texto)

\* Line 28: [linha.strip() for linha in f
\*           if linha.strip() and not linha.startswith("#")]
RECURSIVE dependencias_lidas(_)
dependencias_lidas(linhas) ==
    IF linhas = <<>> THEN <<>>
    ELSE IF strip(Head(linhas)) # "" /\ ~startswith_cardinal(Head(linhas))
         THEN <<strip(Head(linhas))>> \o dependencias_lidas(Tail(linhas))
         ELSE dependencias_lidas(Tail(linhas))

DepsConhecidas == {"requests==2.31", "uvicorn[standard]==0.30", "# nota", "pytest"}
ListasDeDeps == SequenciasAte(DepsConhecidas, MaxLinhasReq)

\* The characters of a dependency, cut at each "]".
TokensDaDep(dep) ==
    IF dep = "uvicorn[standard]==0.30" THEN <<"uvicorn[standard", "]", "==0.30">>
    ELSE <<dep>>

ChaveDependencies == "dependencies = ["

RECURSIVE ItensDumps(_)
ItensDumps(lista) ==
    IF lista = <<>> THEN <<>>
    ELSE <<" \"">> \o TokensDaDep(Head(lista)) \o <<"\",">> \o ItensDumps(Tail(lista))

\* toml.dumps of a list of strings: [ "a", "b",] and [] when empty.
ArrayDumps(lista) == <<ChaveDependencies>> \o ItensDumps(lista) \o <<"]", "\n">>

RECURSIVE ItensFormatados(_)
ItensFormatados(lista) ==
    IF lista = <<>> THEN <<>>
    ELSE <<"\"">> \o TokensDaDep(Head(lista)) \o <<"\"">>
         \o (IF Tail(lista) = <<>> THEN <<>> ELSE <<",\n    ">>)
         \o ItensFormatados(Tail(lista))

\* Lines 48-51: deps_formatadas and the replacement text.
Substituto(lista) ==
    <<ChaveDependencies, "\n    ">> \o ItensFormatados(lista) \o <<"\n", "]">>

\* An array as toml.dumps writes it, or as the replacement wrote it.
Array(lista, formatado) ==
    IF formatado THEN Substituto(lista) \o <<"\n">> ELSE ArrayDumps(lista)

CorpoProject(p, formatado) ==
    (IF p.name = Nenhum THEN <<>> ELSE <<"name = \"artigo\"\n">>)
      \o (IF p.dependencies = Nenhum THEN <<>> ELSE Array(p.dependencies[1], formatado))

CorpoTool(lista, formatado) == <<"dev-">> \o Array(lista, formatado)

SecaoProject(doc, formatado) ==
    IF doc.project = Nenhum THEN <<>>
    ELSE <<"[project]\n">> \o CorpoProject(doc.project[1], formatado)

SecaoTool(doc, formatado) ==
    IF doc.dev = Nenhum THEN <<>>
    ELSE <<"[tool.uv]\n">> \o CorpoTool(doc.dev[1], formatado)

\* toml.dumps(pyproject): the tables in the order of the dict.
dumps(doc) ==
    IF doc.tool_primeiro
    THEN SecaoTool(doc, FALSE) \o SecaoProject(doc, FALSE)
    ELSE SecaoProject(doc, FALSE) \o SecaoTool(doc, FALSE)

Projetos ==
    { [name |-> n, dependencies |-> d] :
        n \in {Nenhum, Algum("artigo")},
        d \in {Nenhum} \cup { Algum(l) : l \in ListasDeDeps } }

\* toml.load of the tokens of one table.
ProjetosDe(corpo) ==
    { p \in Projetos : \E f \in BOOLEAN : CorpoProject(p, f) = corpo }
DevsDe(corpo) ==
    { l \in ListasDeDeps : \E f \in BOOLEAN : CorpoTool(l, f) = corpo }

Cabecalhos == {"[project]\n", "[tool.uv]\n"}
PosicoesDeCabecalho(texto) == { i \in 1 .. Len(texto) : texto[i] \in Cabecalhos }

Documento(project, dev, tool_primeiro) ==
    [project |-> project, dev |-> dev, tool_primeiro |-> tool_primeiro]

UmaSecao(texto) ==
    LET corpo == SubSeq(texto, 2, Len(texto))
    IN IF texto[1] = "[project]\n"
       THEN IF ProjetosDe(corpo) = {} THEN Nenhum
            ELSE Algum(Documento(Algum(CHOOSE p \in ProjetosDe(corpo) : TRUE), Nenhum, FALSE))
       ELSE IF DevsDe(corpo) = {} THEN Nenhum
            ELSE Algum(Documento(Nenhum, Algum(CHOOSE l \in DevsDe(corpo) : TRUE), FALSE))

DuasSecoes(texto, segunda) ==
    LET a == UmaSecao(SubSeq(texto, 1, segunda - 1))
        b == UmaSecao(SubSeq(texto, segunda, Len(texto)))
    IN IF texto[1] = texto[segunda] \/ a = Nenhum \/ b = Nenhum THEN Nenhum
       ELSE IF texto[1] = "[project]\n"
            THEN Algum(Documento(a[1].project, b[1].dev, FALSE))
            ELSE Algum(Documento(b[1].project, a[1].dev, TRUE))

\* toml.load(f): the document, or nothing when the text is not TOML.
load(texto) ==
    LET pos == PosicoesDeCabecalho(texto)
    IN IF texto = <<>> THEN Algum(Documento(Nenhum, Nenhum, FALSE))
       ELSE IF 1 \notin pos \/ Cardinality(pos) > 2 THEN Nenhum
       ELSE IF Cardinality(pos) = 1 THEN UmaSecao(texto)
       ELSE DuasSecoes(texto, CHOOSE i \in pos : i # 1)

PrimeiroIndice(texto, de, token) ==
    IF \E i \in de .. Len(texto) : texto[i] = token
    THEN CHOOSE i \in de .. Len(texto) :
            texto[i] = token /\ \A j \in de .. i - 1 : texto[j] # token
    ELSE 0

\* Lines 45-54: re.sub(r'dependencies = \[(.*?)\]', ..., flags=re.DOTALL)
\* replaces every stretch from the key to the nearest "]" that follows it.
RECURSIVE sub(_, _)
sub(texto, substituto) ==
    LET i == PrimeiroIndice(texto, 1, ChaveDependencies)
        j == IF i = 0 THEN 0 ELSE PrimeiroIndice(texto, i + 1, "]")
    IN IF i = 0 \/ j = 0 THEN texto
       ELSE SubSeq(texto, 1, i - 1) \o substituto
              \o sub(SubSeq(texto, j + 1, Len(texto)), substituto)

Caminhos == {".\\requirements.txt", ".\\dev-requirements.txt", ".\\pyproject.toml"}

\* Line 68: event.src_path.endswith("requirements.txt").
endswith_requirements(src_path) ==
    src_path \in {".\\requirements.txt", ".\\dev-requirements.txt"}

MsgModificado == "[INFO] Arquivo requirements.txt modificado. Atualizando pyproject.toml..."
MsgSucesso == "[INFO] pyproject.toml atualizado com sucesso."
MsgErroLerToml == "[ERRO] Falha ao ler pyproject.toml"
MsgErroLerReqs == "[ERRO] Falha ao ler requirements.txt"
MsgErroGravar == "[ERRO] Falha ao salvar pyproject.toml"

DocumentosIniciais ==
    { Documento(p, d, FALSE) :
        p \in {Nenhum,
               Algum([name |-> Algum("artigo"), dependencies |-> Nenhum]),
               Algum([name |-> Algum("artigo"),
                      dependencies |-> Algum(<<"requests==2.31">>)])},
        d \in {Nenhum, Algum(<<"pytest">>)} }

\* The files before the watcher handles its first event: a pyproject.toml
\* that parses or one that does not, and any requirements.txt.
TomlInit ==
    /\ evento = ""
    /\ disco_pyproject \in { dumps(d) : d \in DocumentosIniciais } \cup {<<"<<<<<<< HEAD\n">>}
    /\ disco_requirements \in ArquivosDeRequisitos
    /\ pyproject_antes = <<>>
    /\ toml_pc = "ocioso"
    /\ pyproject = <<>>
    /\ dependencias = <<>>
    /\ toml_str = <<>>
    /\ toml_impresso = <<>>

\* Lines 66-69: the handler is entered; other paths are ignored.
OnModified ==
    /\ toml_pc = "ocioso"
    /\ \E src_path \in Caminhos :
        /\ evento' = src_path
        /\ IF endswith_requirements(src_path)
           THEN toml_pc' = "ler_pyproject" /\ toml_impresso' = <<MsgModificado>>
           ELSE toml_pc' = "terminou" /\ toml_impresso' = <<>>
    /\ pyproject_antes' = disco_pyproject
    /\ pyproject' = <<>> /\ dependencias' = <<>> /\ toml_str' = <<>>
    /\ UNCHANGED <<foraToml, disco_pyproject, disco_requirements>>

\* Lines 20-25.
LerPyproject ==
    /\ toml_pc = "ler_pyproject"
    /\ IF load(disco_pyproject) = Nenhum
       THEN /\ toml_impresso' = Append(toml_impresso, MsgErroLerToml)
            /\ toml_pc' = "retornou"
            /\ UNCHANGED pyproject
       ELSE /\ pyproject' = load(disco_pyproject)
            /\ toml_pc' = "ler_requirements"
            /\ UNCHANGED toml_impresso
    /\ UNCHANGED <<foraToml, evento, disco_pyproject, disco_requirements,
                   pyproject_antes, dependencias, toml_str>>

\* Lines 27-32.
LerRequirements ==
    /\ toml_pc = "ler_requirements"
    /\ IF ~disco_requirements.legivel
       THEN /\ toml_impresso' = Append(toml_impresso, MsgErroLerReqs)
            /\ toml_pc' = "retornou"
            /\ UNCHANGED dependencias
       ELSE /\ dependencias' = dependencias_lidas(disco_requirements.linhas)
            /\ toml_pc' = "serializar"
            /\ UNCHANGED toml_impresso
    /\ UNCHANGED <<foraToml, evento, disco_pyproject, disco_requirements,
                   pyproject_antes, pyproject, toml_str>>

\* Lines 34-37: the [project] table is created at the end of the dict when it
\* is missing, and its dependencies are assigned.
ComDependencias(doc, deps) ==
    IF doc.project = Nenhum
    THEN Documento(Algum([name |-> Nenhum, dependencies |-> Algum(deps)]),
                   doc.dev, doc.dev # Nenhum)
    ELSE Documento(Algum([name |-> doc.project[1].name, dependencies |-> Algum(deps)]),
                   doc.dev, doc.tool_primeiro)

\* Lines 34-43.
Serializar ==
    /\ toml_pc = "serializar"
    /\ pyproject' = Algum(ComDependencias(pyproject[1], dependencias))
    /\ toml_str' = dumps(ComDependencias(pyproject[1], dependencias))
    /\ toml_pc' = "formatar"
    /\ UNCHANGED <<foraToml, evento, disco_pyproject, disco_requirements,
                   pyproject_antes, dependencias, toml_impresso>>

\* Lines 45-57.
Formatar ==
    /\ toml_pc = "formatar"
    /\ toml_str' = sub(toml_str, Substituto(dependencias))
    /\ toml_pc' = "gravar"
    /\ UNCHANGED <<foraToml, evento, disco_pyproject, disco_requirements,
                   pyproject_antes, pyproject, dependencias, toml_impresso>>

\* Lines 59-63: open(..., "w") succeeds or raises (read-only file, no space).
Gravar ==
    /\ toml_pc = "gravar"
    /\ \E gravou \in BOOLEAN :
        IF gravou
        THEN disco_pyproject' = toml_str /\ UNCHANGED toml_impresso
        ELSE /\ toml_impresso' = Append(toml_impresso, MsgErroGravar)
             /\ UNCHANGED disco_pyproject
    /\ toml_pc' = "retornou"
    /\ UNCHANGED <<foraToml, evento, disco_requirements, pyproject_antes,
                   pyproject, dependencias, toml_str>>

\* Line 72, reached whenever gerar_toml_atualizado returned.
InformaSucesso ==
    /\ toml_pc = "retornou"
    /\ toml_impresso' = Append(toml_impresso, MsgSucesso)
    /\ toml_pc' = "terminou"
    /\ UNCHANGED <<foraToml, evento, disco_pyproject, disco_requirements,
                   pyproject_antes, pyproject, dependencias, toml_str>>

\* The docstring's step 2: requirements.txt is generated again, which is
\* what the watcher waits for.
GeraRequirements ==
    /\ toml_pc = "terminou"
    /\ disco_requirements' \in ArquivosDeRequisitos
    /\ toml_pc' = "ocioso"
    /\ toml_impresso' = <<>>
    /\ UNCHANGED <<foraToml, evento, disco_pyproject, pyproject_antes,
                   pyproject, dependencias, toml_str>>

TomlNext ==
    \/ OnModified
    \/ LerPyproject
    \/ LerRequirements
    \/ Serializar
    \/ Formatar
    \/ Gravar
    \/ InformaSucesso
    \/ GeraRequirements

InitToml ==
    /\ TuningParado /\ MLParado
    /\ ParaleloParado /\ BuscaParada /\ SugestaoParada /\ PreParado
    /\ TomlInit

SpecToml == InitToml /\ [][TomlNext]_vars

(***************************************************************************)
(* C20: what a reported update leaves in pyproject.toml.                   *)
(***************************************************************************)
\* The lines of requirements.txt that are neither blank nor comments.
RECURSIVE LinhasDeDependencia(_)
LinhasDeDependencia(linhas) ==
    IF linhas = <<>> THEN <<>>
    ELSE IF Head(linhas).texto # "" /\ ~ComecaComCardinal(Head(linhas).texto)
         THEN <<Head(linhas).texto>> \o LinhasDeDependencia(Tail(linhas))
         ELSE LinhasDeDependencia(Tail(linhas))

SucessoInformado == Contem(toml_impresso, MsgSucesso)

NomeDoProjeto(doc) == IF doc.project = Nenhum THEN Nenhum ELSE doc.project[1].name

\* pyproject.toml now parses, project.dependencies is the list expected and
\* the other keys are those of the file as it was.
ReescritoComo(esperadas) ==
    /\ load(pyproject_antes) # Nenhum
    /\ load(disco_pyproject) # Nenhum
    /\ load(disco_pyproject)[1].project # Nenhum
    /\ load(disco_pyproject)[1].project[1].dependencies = Algum(esperadas)
    /\ load(disco_pyproject)[1].dev = load(pyproject_antes)[1].dev
    /\ NomeDoProjeto(load(disco_pyproject)[1]) = NomeDoProjeto(load(pyproject_antes)[1])

LeituraFalhou ==
    load(pyproject_antes) = Nenhum \/ ~disco_requirements.legivel

\* C20: once RequisitosHandler has handled a modification of requirements.txt,
\* a reported success means pyproject.toml was rewritten with
\* project.dependencies equal to the non-blank, non-comment lines of
\* requirements.txt and every other key as before; and when reading either
\* file failed, pyproject.toml is as it was and no success is reported.
C20_SucessoSignificaReescrito ==
    toml_pc = "terminou" /\ endswith_requirements(evento) =>
        /\ SucessoInformado /\ disco_requirements.legivel =>
              ReescritoComo(LinhasDeDependencia(disco_requirements.linhas))
        /\ LeituraFalhou => ~SucessoInformado /\ disco_pyproject = pyproject_antes

====
